---------------------------- MODULE Spec2Model ----------------------------
(***************************************************************************)
(* Housing-Dashboard ingestion scripts: the change-statistics routines     *)
(* (compute_changes and its per-script copies, the pandas variants in      *)
(* Credit.py and etl/transforms), the series-to-rows assemblers, the        *)
(* monthly "last observation" aggregators and the date normalisers.        *)
(*                                                                         *)
(* Numbers.  Python floats are modelled by exact rationals; a value that   *)
(* may be absent is a record [k, n, d]:                                    *)
(*    k = "num"   the rational n/d, d > 0, in lowest terms                 *)
(*    k = "null"  None / pandas NaN (a missing value)                      *)
(*    k = "inf"   +infinity (n = 1) or -infinity (n = -1)                  *)
(*    k = "nan"   the float NaN that float("NaN") returns                  *)
(* Observations fed to the routines are integers.                          *)
(***************************************************************************)
EXTENDS Integers, Sequences, FiniteSets, TLC

VARIABLES
    values,     \* the list of observations handed to a change routine
    routine,    \* the routine that has run on it ("none" before)
    changes,    \* the (mom, yoy, ma3) triple a compute_changes copy returned
    rows,       \* the PanelRow list a row producer emitted
    loaded,     \* a date -> value dict loaded by a source script
    fetcher,    \* the fetcher whose response loop is running ("none" before)
    processed,  \* the data points of the response handled so far
    month_map,  \* the fetcher's month key -> stored observation dict
    result,     \* the month key -> value dict the fetcher returned
    label,      \* a date label of an upstream response
    normaliser, \* the date normaliser applied to it ("none" before)
    key,        \* the date key the normaliser produced
    key_once,   \* the key of the first pass, once the key was normalised again
    passes,     \* times the normaliser was applied (0 before)
    panel_file, \* data/processed/panel.json: [kind, rows]
    tab_files,  \* the tab files of data/processed that exist: name -> [kind, rows]
    df_loaded,  \* what load_existing_panel returned in the last run of etl main
    etl_runs,   \* runs of etl main so far
    etl_exit,   \* how the last run of etl main ended ("none" before the first)
    disk,       \* the files the scripts keep in data/processed: name -> [kind, rows]
    call,       \* the script entry point that ran last ("none" before)
    upstream,   \* what its fetches and file reads met, in call order
    returned,   \* what it returned: [raised, rows]
    script_runs, \* script entry points run so far
    rt_rows,    \* a list of PanelRow of Rentals.py
    rt_file,    \* the JSON file written from it: [kind, rows]
    rt_loaded,  \* what _load_panel_rows_from_json returned: [raised, rows]
    rt_pc,      \* "start", "written", "missing", "loaded"
    credit_metric,  \* the metric build_credit_panel is converting
    credit_source,  \* its series as loaded: month ordinal -> value
    credit_rows,    \* the rows build_credit_panel added for it
    credit_pc,      \* "start", "loaded", "built"
    crea_rows,      \* rows of the CREA sheet: [cell, val, means]
    crea_result,    \* _build_monthly_from_crea_quarterly: [raised, monthly]
    crea_pc,        \* "start", "read", "done"
    infl_rows,      \* the inflation rows given to build_rent_inflation_lookup
    rent_lookup,    \* its result: (region, year) -> yoy
    rent_pc,        \* "start", "read", "done"
    upd_kind,       \* the updater script that ran
    upd_input,      \* what its fetch returned: rows [date, c, t]
    upd_tz,         \* UTC offset of the machine's local time, in minutes
    upd_payload,    \* the candles payload it built
    raw_old,        \* the raw file before the updater ran
    raw_file,       \* the raw file now
    read_series,    \* the series _read_alphavantage_candles returned
    upd_pc          \* "start", "written", "read"

gapVars == <<loaded>>

fetchVars == <<fetcher, processed, month_map, result>>

dateVars == <<label, normaliser, key, key_once, passes>>

etlVars == <<panel_file, tab_files, df_loaded, etl_runs, etl_exit>>

\* the state of the orchestrators
scriptVars == <<disk, call, upstream, returned, script_runs>>

jsonVars == <<rt_rows, rt_file, rt_loaded, rt_pc>>

creditVars == <<credit_metric, credit_source, credit_rows, credit_pc>>

creaVars == <<crea_rows, crea_result, crea_pc>>

updVars == <<upd_kind, upd_input, upd_tz, upd_payload, raw_old, raw_file,
             read_series, upd_pc>>

rentVars == <<infl_rows, rent_lookup, rent_pc>>

restVars == <<etlVars, scriptVars, jsonVars, creditVars, creaVars, rentVars, updVars>>

vars == <<values, routine, changes, rows, gapVars, fetchVars, dateVars, restVars>>

----------------------------------------------------------------------------
(* Bounds of the model *)

\* longest list of observations built
MaxLen == 13
\* at most this many observations of a list differ from BaseValue
MaxOdd == 2

\* the level most observations take, and the other levels
BaseValue == 7
OddValues == {-3, 0}

----------------------------------------------------------------------------
(* Arithmetic *)

Abs(x) == IF x < 0 THEN 0 - x ELSE x

Max(a, b) == IF a >= b THEN a ELSE b

RECURSIVE GCD(_, _)
GCD(a, b) == IF b = 0 THEN a ELSE GCD(b, a % b)

None == [k |-> "null", n |-> 0, d |-> 1]

Inf(sign) == [k |-> "inf", n |-> sign, d |-> 1]

\* float("NaN")
NaN == [k |-> "nan", n |-> 0, d |-> 1]

\* a float() call that raised ValueError
NotAFloat == [k |-> "error", n |-> 0, d |-> 1]

\* the rational n/d (d # 0) in lowest terms with a positive denominator
Num(n, d) ==
    LET s == IF d < 0 THEN 0 - 1 ELSE 1
        g == GCD(Abs(n), Abs(d))
    IN  [k |-> "num", n |-> (s * n) \div g, d |-> Abs(d) \div g]

IsNum(x) == x.k = "num"

RECURSIVE Sum(_)
Sum(s) == IF s = <<>> THEN 0 ELSE Head(s) + Sum(Tail(s))

\* sum(window) / len(window)
Mean(window) == Num(Sum(window), Len(window))

\* (v / base - 1.0) * 100.0, base # 0
PctChange(v, base) == Num(100 * (v - base), base)

RECURSIVE Pow10(_)
Pow10(e) == IF e = 0 THEN 1 ELSE 10 * Pow10(e - 1)

\* the integer nearest to n/d (d > 0), ties to the even one
RoundHalfEven(n, d) ==
    LET q == n \div d
        r == n - q * d
    IN  IF 2 * r < d THEN q
        ELSE IF 2 * r > d THEN q + 1
        ELSE IF q % 2 = 0 THEN q ELSE q + 1

\* round(x, nd) of a number x
Round(x, nd) == Num(RoundHalfEven(x.n * Pow10(nd), x.d), Pow10(nd))

\* round(x, nd) if x is not None else None
RoundOpt(x, nd) == IF IsNum(x) THEN Round(x, nd) ELSE x

----------------------------------------------------------------------------
(* compute_changes: index i of the code is position i + 1 here *)

YearLag == 12

\* values[max(0, i - 2) : i + 1]
Window(vals, p) == SubSeq(vals, Max(1, p - 2), p)

\* mom taken against the observation two positions back
compute_changes_lag2(vals) ==
    [mom |-> [p \in 1..Len(vals) |->
                IF p > 2 /\ vals[p - 2] # 0
                THEN PctChange(vals[p], vals[p - 2]) ELSE None],
     yoy |-> [p \in 1..Len(vals) |->
                IF p > YearLag /\ vals[p - YearLag] # 0
                THEN PctChange(vals[p], vals[p - YearLag]) ELSE None],
     ma3 |-> [p \in 1..Len(vals) |-> Mean(Window(vals, p))]]

\* Prices.compute_changes
compute_changes(vals) ==
    [mom |-> [p \in 1..Len(vals) |->
                IF p > 1 /\ vals[p - 1] # 0
                THEN PctChange(vals[p], vals[p - 1]) ELSE None],
     yoy |-> [p \in 1..Len(vals) |->
                IF p > YearLag /\ vals[p - YearLag] # 0
                THEN PctChange(vals[p], vals[p - YearLag]) ELSE None],
     ma3 |-> [p \in 1..Len(vals) |-> Mean(Window(vals, p))]]


\* the copy of compute_changes in SalesListings.py
SalesListings_compute_changes(vals) ==
    [mom |-> [p \in 1..Len(vals) |->
                IF p > 1 /\ vals[p - 1] # 0
                THEN PctChange(vals[p], vals[p - 1]) ELSE None],
     yoy |-> [p \in 1..Len(vals) |->
                IF p > YearLag /\ vals[p - YearLag] # 0
                THEN PctChange(vals[p], vals[p - YearLag]) ELSE None],
     ma3 |-> [p \in 1..Len(vals) |-> Mean(Window(vals, p))]]

\* a window that does not narrow at the start of the list
Supply_compute_changes_fixed3(vals) ==
    [mom |-> [p \in 1..Len(vals) |->
                IF p > 1 /\ vals[p - 1] # 0
                THEN PctChange(vals[p], vals[p - 1]) ELSE None],
     yoy |-> [p \in 1..Len(vals) |->
                IF p > YearLag /\ vals[p - YearLag] # 0
                THEN PctChange(vals[p], vals[p - YearLag]) ELSE None],
     ma3 |-> [p \in 1..Len(vals) |-> Num(Sum(Window(vals, p)), 3)]]

\* the copy of compute_changes in Supply.py
Supply_compute_changes(vals) ==
    [mom |-> [p \in 1..Len(vals) |->
                IF p > 1 /\ vals[p - 1] # 0
                THEN PctChange(vals[p], vals[p - 1]) ELSE None],
     yoy |-> [p \in 1..Len(vals) |->
                IF p > YearLag /\ vals[p - YearLag] # 0
                THEN PctChange(vals[p], vals[p - YearLag]) ELSE None],
     ma3 |-> [p \in 1..Len(vals) |-> Mean(Window(vals, p))]]

\* yoy needing one more period of history than the code asks for
InflationLabour_compute_changes_late(vals) ==
    [mom |-> [p \in 1..Len(vals) |->
                IF p > 1 /\ vals[p - 1] # 0
                THEN PctChange(vals[p], vals[p - 1]) ELSE None],
     yoy |-> [p \in 1..Len(vals) |->
                IF p > YearLag + 1 /\ vals[p - YearLag] # 0
                THEN PctChange(vals[p], vals[p - YearLag]) ELSE None],
     ma3 |-> [p \in 1..Len(vals) |-> Mean(Window(vals, p))]]

\* the copy of compute_changes in InflationLabour.py
InflationLabour_compute_changes(vals) ==
    [mom |-> [p \in 1..Len(vals) |->
                IF p > 1 /\ vals[p - 1] # 0
                THEN PctChange(vals[p], vals[p - 1]) ELSE None],
     yoy |-> [p \in 1..Len(vals) |->
                IF p > YearLag /\ vals[p - YearLag] # 0
                THEN PctChange(vals[p], vals[p - YearLag]) ELSE None],
     ma3 |-> [p \in 1..Len(vals) |-> Mean(Window(vals, p))]]

\* a copy whose moving average always divides by three
TestData_compute_changes_div3(vals) ==
    [mom |-> [p \in 1..Len(vals) |->
                IF p > 1 /\ vals[p - 1] # 0
                THEN PctChange(vals[p], vals[p - 1]) ELSE None],
     yoy |-> [p \in 1..Len(vals) |->
                IF p > YearLag /\ vals[p - YearLag] # 0
                THEN PctChange(vals[p], vals[p - YearLag]) ELSE None],
     ma3 |-> [p \in 1..Len(vals) |-> Num(Sum(Window(vals, p)), 3)]]

\* the copy of compute_changes in generate_test_data.py
TestData_compute_changes(vals) ==
    [mom |-> [p \in 1..Len(vals) |->
                IF p > 1 /\ vals[p - 1] # 0
                THEN PctChange(vals[p], vals[p - 1]) ELSE None],
     yoy |-> [p \in 1..Len(vals) |->
                IF p > YearLag /\ vals[p - YearLag] # 0
                THEN PctChange(vals[p], vals[p - YearLag]) ELSE None],
     ma3 |-> [p \in 1..Len(vals) |-> Mean(Window(vals, p))]]

\* Rentals.compute_changes with the fallback left out
Rentals_compute_changes_no_fallback(vals) ==
    [mom |-> [p \in 1..Len(vals) |->
                IF p > 1 /\ vals[p - 1] # 0
                THEN PctChange(vals[p], vals[p - 1]) ELSE None],
     yoy |-> [p \in 1..Len(vals) |->
                IF p > YearLag /\ vals[p - YearLag] # 0
                THEN PctChange(vals[p], vals[p - YearLag]) ELSE None],
     ma3 |-> [p \in 1..Len(vals) |-> Mean(Window(vals, p))]]

\* Rentals.compute_changes: yoy falls back to the previous observation
Rentals_compute_changes(vals) ==
    [mom |-> [p \in 1..Len(vals) |->
                IF p > 1 /\ vals[p - 1] # 0
                THEN PctChange(vals[p], vals[p - 1]) ELSE None],
     yoy |-> [p \in 1..Len(vals) |->
                LET base_index == IF p > YearLag THEN p - YearLag
                                  ELSE IF p > 1 THEN p - 1 ELSE 0
                IN  IF base_index # 0 /\ vals[base_index] # 0
                    THEN PctChange(vals[p], vals[base_index]) ELSE None],
     ma3 |-> [p \in 1..Len(vals) |-> Mean(Window(vals, p))]]

----------------------------------------------------------------------------
(* Series (date -> value dicts) and the rows built from them.  A date key  *)
(* of a monthly series is its month ordinal; the order of the canonical    *)
(* "YYYY-MM-01" strings is the order of the ordinals.                      *)

RECURSIVE SortedKeys(_)
SortedKeys(S) ==
    IF S = {} THEN <<>>
    ELSE LET m == CHOOSE x \in S : \A y \in S : x <= y
         IN  <<m>> \o SortedKeys(S \ {m})

\* sorted(series.items()): the dates and the values in date order
Dates(series) == SortedKeys(DOMAIN series)

Values(series) ==
    LET dates == Dates(series)
    IN  [p \in 1..Len(dates) |-> series[dates[p]]]

PanelRow(date, metric, value, mom_pct, yoy_pct, ma3) ==
    [date |-> date, metric |-> metric, value |-> value,
     mom_pct |-> mom_pct, yoy_pct |-> yoy_pct, ma3 |-> ma3]

MarketDigits == 2
SupplyDigits == 3

\* Market._build_panel_rows_for_series
Market_build_panel_rows_for_series(metric_id, series) ==
    LET dates == Dates(series)
        vals  == Values(series)
    IN  [p \in 1..Len(dates) |->
            LET mom_pct == IF p > 1 /\ vals[p - 1] # 0
                           THEN PctChange(vals[p], vals[p - 1]) ELSE None
                yoy_pct == IF p > YearLag /\ vals[p - YearLag] # 0
                           THEN PctChange(vals[p], vals[p - YearLag]) ELSE None
                ma3     == Mean(Window(vals, p))
            IN  PanelRow(dates[p], metric_id,
                         Round(Num(vals[p], 1), MarketDigits),
                         RoundOpt(mom_pct, MarketDigits),
                         RoundOpt(yoy_pct, MarketDigits),
                         RoundOpt(ma3, MarketDigits))]

\* Supply._series_to_panel_rows
Supply_series_to_panel_rows(metric, series) ==
    LET dates == Dates(series)
        vals  == Values(series)
        ch    == Supply_compute_changes(vals)
    IN  [p \in 1..Len(dates) |->
            PanelRow(dates[p], metric,
                     Round(Num(vals[p], 1), SupplyDigits),
                     RoundOpt(ch.mom[p], SupplyDigits),
                     RoundOpt(ch.yoy[p], SupplyDigits),
                     Round(ch.ma3[p], SupplyDigits))]

----------------------------------------------------------------------------
(* The pandas variants.  A division by zero gives +-inf (0/0 gives NaN, a  *)
(* missing value); shift(k) and rolling(3) leave the first rows missing.   *)

\* (value / value.shift(lag) - 1) * 100 at position p
PandasPct(vals, p, lag) ==
    IF p <= lag THEN None
    ELSE IF vals[p - lag] # 0 THEN PctChange(vals[p], vals[p - lag])
    ELSE IF vals[p] = 0 THEN None
    ELSE IF (vals[p] > 0) THEN Inf(1) ELSE Inf(0 - 1)

RollingWindow == 3

\* value.rolling(3).mean() at position p
PandasRollingMean(vals, p) ==
    IF p < RollingWindow THEN None
    ELSE Mean(SubSeq(vals, p - RollingWindow + 1, p))

QuarterLag == 4

\* Credit.series_to_panel_rows
Credit_series_to_panel_rows(series, metric, freq) ==
    LET dates == Dates(series)
        vals  == Values(series)
    IN  [p \in 1..Len(dates) |->
            PanelRow(dates[p], metric, Num(vals[p], 1),
                     PandasPct(vals, p, 1),
                     IF freq = "M" THEN PandasPct(vals, p, YearLag)
                     ELSE IF freq = "Q" THEN PandasPct(vals, p, QuarterLag)
                     ELSE None,
                     PandasRollingMean(vals, p))]

\* add_changes._with_changes on one (metric, region, segment) group,
\* sorted by date
with_changes(metric, series) ==
    LET dates == Dates(series)
        vals  == Values(series)
    IN  [p \in 1..Len(dates) |->
            PanelRow(dates[p], metric, Num(vals[p], 1),
                     PandasPct(vals, p, 1),
                     PandasPct(vals, p, YearLag),
                     PandasRollingMean(vals, p))]

----------------------------------------------------------------------------
(* The change-statistics specification *)

NoChanges == [mom |-> <<>>, yoy |-> <<>>, ma3 |-> <<>>]

OddCount(vals) == Cardinality({p \in 1..Len(vals) : vals[p] # BaseValue})

\* the state of the parts of the program a specification leaves alone
IdleChanges == values = <<>> /\ changes = NoChanges

IdleGap == loaded = <<>>

IdleFetch ==
    /\ fetcher = "none"
    /\ processed = <<>>
    /\ month_map = <<>>
    /\ result = [done |-> FALSE, by_month |-> <<>>]

IdleDates ==
    /\ label = <<>> /\ normaliser = "none" /\ key = <<>>
    /\ key_once = <<>> /\ passes = 0

\* a path of data/processed at which no file exists
NoFile == [kind |-> "absent", rows |-> <<>>]

NotLoaded == [from |-> "none", rows |-> <<>>]

IdleEtl ==
    /\ panel_file = NoFile
    /\ tab_files = <<>>
    /\ df_loaded = NotLoaded
    /\ etl_runs = 0
    /\ etl_exit = "none"

\* the files of data/processed the scripts write
ScriptFiles ==
    {"panel.json", "overview.json", "prices.json", "sales_listings.json",
     "rentals.json", "rates_bonds.json", "inflation_labour.json",
     "market.json", "supply.json", "panel_credit.json"}

NothingReturned == [raised |-> "none", rows |-> <<>>]

IdleScripts ==
    /\ disk = [f \in ScriptFiles |-> NoFile]
    /\ call = "none"
    /\ upstream = <<>>
    /\ returned = NothingReturned
    /\ script_runs = 0

IdleJson ==
    /\ rt_rows = <<>>
    /\ rt_file = NoFile
    /\ rt_loaded = [raised |-> FALSE, rows |-> <<>>]
    /\ rt_pc = "start"

IdleCredit ==
    /\ credit_metric = "none"
    /\ credit_source = <<>>
    /\ credit_rows = <<>>
    /\ credit_pc = "start"

IdleCrea ==
    /\ crea_rows = <<>>
    /\ crea_result = [raised |-> FALSE, monthly |-> <<>>]
    /\ crea_pc = "start"

IdleRent ==
    /\ infl_rows = <<>>
    /\ rent_lookup = <<>>
    /\ rent_pc = "start"

\* an empty dict in place of a payload, and a file that does not exist
EmptyPayload == [s |-> "", t |-> <<>>, c |-> <<>>]
NoRawFile == [s |-> "absent", t |-> <<>>, c |-> <<>>]

IdleUpd ==
    /\ upd_kind = "none"
    /\ upd_input = <<>>
    /\ upd_tz = 0
    /\ upd_payload = EmptyPayload
    /\ raw_old = NoRawFile
    /\ raw_file = NoRawFile
    /\ read_series = <<>>
    /\ upd_pc = "start"

IdleRest ==
    /\ IdleEtl /\ IdleScripts /\ IdleJson /\ IdleCredit /\ IdleCrea /\ IdleRent
    /\ IdleUpd

InitChanges ==
    /\ IdleChanges
    /\ routine = "none"
    /\ rows = <<>>
    /\ IdleGap
    /\ IdleFetch
    /\ IdleDates
    /\ IdleRest

\* the caller collects one more observation of the series
AppendValue(v) ==
    /\ routine = "none"
    /\ Len(values) < MaxLen
    /\ v = BaseValue \/ OddCount(values) < MaxOdd
    /\ values' = Append(values, v)
    /\ UNCHANGED <<routine, changes, rows, gapVars, fetchVars, dateVars, restVars>>

\* the series of the collected observations, one per consecutive month
SeriesOf(vals) == [m \in 1..Len(vals) |-> vals[m]]

RunPrices ==
    /\ routine = "none"
    /\ routine' = "Prices"
    /\ changes' = compute_changes(values)
    /\ UNCHANGED <<values, rows, gapVars, fetchVars, dateVars, restVars>>

RunSalesListings ==
    /\ routine = "none"
    /\ routine' = "SalesListings"
    /\ changes' = SalesListings_compute_changes(values)
    /\ UNCHANGED <<values, rows, gapVars, fetchVars, dateVars, restVars>>

RunSupply ==
    /\ routine = "none"
    /\ routine' = "Supply"
    /\ changes' = Supply_compute_changes(values)
    /\ UNCHANGED <<values, rows, gapVars, fetchVars, dateVars, restVars>>

RunInflationLabour ==
    /\ routine = "none"
    /\ routine' = "InflationLabour"
    /\ changes' = InflationLabour_compute_changes(values)
    /\ UNCHANGED <<values, rows, gapVars, fetchVars, dateVars, restVars>>

RunTestData ==
    /\ routine = "none"
    /\ routine' = "TestData"
    /\ changes' = TestData_compute_changes(values)
    /\ UNCHANGED <<values, rows, gapVars, fetchVars, dateVars, restVars>>

RunRentals ==
    /\ routine = "none"
    /\ routine' = "Rentals"
    /\ changes' = Rentals_compute_changes(values)
    /\ UNCHANGED <<values, rows, gapVars, fetchVars, dateVars, restVars>>

RunMarket ==
    /\ routine = "none"
    /\ values # <<>>
    /\ routine' = "Market"
    /\ rows' = Market_build_panel_rows_for_series("m", SeriesOf(values))
    /\ UNCHANGED <<values, changes, gapVars, fetchVars, dateVars, restVars>>

RunSupplyRows ==
    /\ routine = "none"
    /\ values # <<>>
    /\ routine' = "SupplyRows"
    /\ rows' = Supply_series_to_panel_rows("m", SeriesOf(values))
    /\ UNCHANGED <<values, changes, gapVars, fetchVars, dateVars, restVars>>

RunCreditM ==
    /\ routine = "none"
    /\ values # <<>>
    /\ routine' = "CreditM"
    /\ rows' = Credit_series_to_panel_rows(SeriesOf(values), "m", "M")
    /\ UNCHANGED <<values, changes, gapVars, fetchVars, dateVars, restVars>>

RunCreditQ ==
    /\ routine = "none"
    /\ values # <<>>
    /\ routine' = "CreditQ"
    /\ rows' = Credit_series_to_panel_rows(SeriesOf(values), "m", "Q")
    /\ UNCHANGED <<values, changes, gapVars, fetchVars, dateVars, restVars>>

RunEtl ==
    /\ routine = "none"
    /\ values # <<>>
    /\ routine' = "Etl"
    /\ rows' = with_changes("m", SeriesOf(values))
    /\ UNCHANGED <<values, changes, gapVars, fetchVars, dateVars, restVars>>

NextChanges ==
    \/ \E v \in OddValues \cup {BaseValue} : AppendValue(v)
    \/ RunPrices
    \/ RunSalesListings
    \/ RunSupply
    \/ RunInflationLabour
    \/ RunTestData
    \/ RunRentals
    \/ RunMarket
    \/ RunSupplyRows
    \/ RunCreditM
    \/ RunCreditQ
    \/ RunEtl

SpecChanges == InitChanges /\ [][NextChanges]_vars

----------------------------------------------------------------------------
(* Claims about the change statistics (checked under SpecChanges) *)

\* the copies of compute_changes without and with the yoy fallback
PlainRoutines ==
    {"Prices", "SalesListings", "Supply", "InflationLabour", "TestData"}

ChangeRoutines == PlainRoutines \cup {"Rentals"}

Positions == 1..Len(values)

MomDue(p) == p > 1 /\ values[p - 1] # 0

YoyDue(p) == p > YearLag /\ values[p - YearLag] # 0

\* x is the number (values[p] / values[b] - 1) * 100
IsPctOf(x, p, b) ==
    IsNum(x) /\ x.n * values[b] = 100 * (values[p] - values[b]) * x.d

\* x is y rounded to nd decimals: a multiple of 10^-nd within half a unit
IsRounded(x, nd, yn, yd) ==
    /\ IsNum(x)
    /\ Pow10(nd) % x.d = 0
    /\ 2 * Pow10(nd) * Abs(x.n * yd - yn * x.d) <= x.d * Abs(yd)

\* C1 as stated: in every compute_changes copy and in
\* Market._build_panel_rows_for_series, mom[i] is defined iff i >= 1 and
\* v[i-1] # 0, and then equals (v[i] / v[i-1] - 1) * 100 exactly.
C1_MomExactEverywhere ==
    /\ routine \in ChangeRoutines =>
          \A p \in Positions :
             IF MomDue(p) THEN IsPctOf(changes.mom[p], p, p - 1)
             ELSE changes.mom[p] = None
    /\ routine = "Market" =>
          \A p \in Positions :
             IF MomDue(p) THEN IsPctOf(rows[p].mom_pct, p, p - 1)
             ELSE rows[p].mom_pct = None

\* C1 amended: mom[i] is defined iff i >= 1 and v[i-1] # 0; when defined,
\* compute_changes returns (v[i] / v[i-1] - 1) * 100 against the observation
\* one position earlier, and Market._build_panel_rows_for_series emits that
\* number rounded to two decimals.
C1_MomOneStepBack ==
    /\ routine \in ChangeRoutines =>
          \A p \in Positions :
             IF MomDue(p) THEN IsPctOf(changes.mom[p], p, p - 1)
             ELSE changes.mom[p] = None
    /\ routine = "Market" =>
          \A p \in Positions :
             IF MomDue(p)
             THEN IsRounded(rows[p].mom_pct, MarketDigits,
                            100 * (values[p] - values[p - 1]), values[p - 1])
             ELSE rows[p].mom_pct = None

\* Market has emitted a rounded mom_pct that is not the exact quotient, next
\* to one suppressed by a zero predecessor
C1_Witness ==
    /\ routine = "Market"
    /\ \E p \in Positions : MomDue(p) /\ ~IsPctOf(rows[p].mom_pct, p, p - 1)
    /\ \E p \in Positions : p > 1 /\ values[p - 1] = 0

\* C2 as stated: in every change routine (the compute_changes copies,
\* Rentals included, and Credit.series_to_panel_rows for a monthly series)
\* yoy[i] is defined, that is a number, iff i >= 12 and v[i-12] # 0.
C2_YoyDefinedIffLag12 ==
    /\ routine \in ChangeRoutines =>
          \A p \in Positions : IsNum(changes.yoy[p]) <=> YoyDue(p)
    /\ routine = "CreditM" =>
          \A p \in Positions : IsNum(rows[p].yoy_pct) <=> YoyDue(p)

\* C2 amended: yoy[i] is a number iff i >= 12 and v[i-12] # 0 in every
\* change routine except Rentals.compute_changes, where it is a number iff
\* (i >= 12 and v[i-12] # 0) or (1 <= i < 12 and v[i-1] # 0).
C2_YoyDefinedIffLag12OrFallback ==
    /\ routine \in PlainRoutines =>
          \A p \in Positions : IsNum(changes.yoy[p]) <=> YoyDue(p)
    /\ routine = "CreditM" =>
          \A p \in Positions : IsNum(rows[p].yoy_pct) <=> YoyDue(p)
    /\ routine = "Rentals" =>
          \A p \in Positions :
             IsNum(changes.yoy[p]) <=>
                \/ YoyDue(p)
                \/ p > 1 /\ p <= YearLag /\ values[p - 1] # 0

\* Rentals.compute_changes has run on a list of more than 12 observations,
\* giving a fallback yoy early on, a 12-lag yoy at the end, and no yoy after
\* a zero observation
C2_Witness ==
    /\ routine = "Rentals"
    /\ Len(values) > YearLag
    /\ IsNum(changes.yoy[2])
    /\ IsNum(changes.yoy[YearLag + 1])
    /\ \E p \in Positions : p > 1 /\ changes.yoy[p] = None

\* C24: Rentals.compute_changes computes yoy[i] against v[i-12] for i >= 12
\* and against v[i-1] for 1 <= i < 12, where it equals mom[i]; yoy[0] is
\* undefined; a zero base leaves the entry undefined, as for mom
C24_RentalsYoyFallback ==
    routine = "Rentals" =>
        \A p \in Positions :
           IF p > YearLag
           THEN IF values[p - YearLag] # 0
                THEN IsPctOf(changes.yoy[p], p, p - YearLag)
                ELSE changes.yoy[p] = None
           ELSE IF p > 1
           THEN /\ changes.yoy[p] = changes.mom[p]
                /\ IF values[p - 1] # 0
                   THEN IsPctOf(changes.yoy[p], p, p - 1)
                   ELSE changes.yoy[p] = None
           ELSE changes.yoy[p] = None

\* Rentals.compute_changes has run on more than 12 observations: every entry
\* from the second to the twelfth is the fallback, and the thirteenth is a
\* 12-lag change that differs from the month-over-month change
C24_Witness ==
    /\ routine = "Rentals"
    /\ Len(values) > YearLag
    /\ changes.yoy[1] = None
    /\ \A p \in 2..YearLag : IsNum(changes.yoy[p]) /\ changes.yoy[p] = changes.mom[p]
    /\ IsNum(changes.yoy[YearLag + 1])
    /\ changes.yoy[YearLag + 1] # changes.mom[YearLag + 1]

\* C3: in every compute_changes copy ma3[i] is defined for every i and is
\* the arithmetic mean of v[max(0, i-2) .. i]: one value at i = 0, two at
\* i = 1, three from i = 2 on.
C3_Ma3TrailingMean ==
    routine \in ChangeRoutines =>
       /\ Len(changes.ma3) = Len(values)
       /\ \A p \in Positions :
             LET cnt   == IF p >= 3 THEN 3 ELSE p
                 total == values[p]
                          + (IF p >= 2 THEN values[p - 1] ELSE 0)
                          + (IF p >= 3 THEN values[p - 2] ELSE 0)
             IN  /\ IsNum(changes.ma3[p])
                 /\ changes.ma3[p].n * cnt = total * changes.ma3[p].d

\* a copy has run on a list whose first, second and third windows hold
\* different levels
C3_Witness ==
    /\ routine \in ChangeRoutines
    /\ Len(values) >= 3
    /\ values[1] # values[2]
    /\ changes.ma3[1] # changes.ma3[2]
    /\ changes.ma3[2] # changes.ma3[3]

PandasRoutines == {"Etl", "CreditM", "CreditQ"}

\* C4: every row a producer emits for a series with at least one
\* observation has a non-null ma3, and the first row's ma3 is its own value.
C4_Ma3AlwaysDefined ==
    (routine \in PandasRoutines /\ Len(values) >= 1) =>
       /\ \A p \in Positions : IsNum(rows[p].ma3)
       /\ rows[1].ma3 = rows[1].value

AllNumbers ==
    IF routine \in ChangeRoutines
    THEN {changes.mom[p] : p \in Positions}
            \cup {changes.yoy[p] : p \in Positions}
            \cup {changes.ma3[p] : p \in Positions}
    ELSE {rows[p].mom_pct : p \in 1..Len(rows)}
            \cup {rows[p].yoy_pct : p \in 1..Len(rows)}
            \cup {rows[p].ma3 : p \in 1..Len(rows)}

MomOf(p) == IF routine \in ChangeRoutines THEN changes.mom[p] ELSE rows[p].mom_pct

YoyOf(p) == IF routine \in ChangeRoutines THEN changes.yoy[p] ELSE rows[p].yoy_pct

YoyLagOf == IF routine = "CreditQ" THEN QuarterLag ELSE YearLag

\* C5: in every change routine a zero or negative denominator observation
\* (v[i-1] <= 0 for mom, v[i-12] <= 0 for yoy) gives a null result, and no
\* infinite value is produced or emitted.
C5_NonPositiveDenominatorSuppressed ==
    routine # "none" =>
       /\ \A p \in Positions :
             (p > 1 /\ values[p - 1] <= 0) => MomOf(p) = None
       /\ \A p \in Positions :
             (p > YoyLagOf /\ values[p - YoyLagOf] <= 0) => YoyOf(p) = None
       /\ \A x \in AllNumbers : x.k # "inf"

\* C20: every compute_changes copy returns three sequences of the length of
\* its input; for an input shorter than 2, mom and yoy are undefined at
\* every point, ma3[0] = v[0] for a single observation, and the three
\* sequences are empty for an empty input.
C20_ShortInputs ==
    routine \in ChangeRoutines =>
       /\ Len(changes.mom) = Len(values)
       /\ Len(changes.yoy) = Len(values)
       /\ Len(changes.ma3) = Len(values)
       /\ Len(values) < 2 =>
             \A p \in Positions :
                changes.mom[p] = None /\ changes.yoy[p] = None
       /\ Len(values) = 1 => changes.ma3[1] = Num(values[1], 1)
       /\ values = <<>> => changes = NoChanges

\* the copy of generate_test_data has run on a single non-zero observation
C20_Witness ==
    /\ routine = "TestData"
    /\ Len(values) = 1
    /\ values[1] # 0
    /\ changes.ma3 = <<Num(values[1], 1)>>

----------------------------------------------------------------------------
(* A monthly series with one month missing, turned into rows by            *)
(* Supply._series_to_panel_rows                                            *)

\* months of the synthetic series
SeriesMonths == 24

\* the levels and monthly steps of the synthetic series (never zero)
GapLevels == {100, 250}
GapSteps == {-3, 0, 5}

InitGap ==
    /\ IdleChanges
    /\ routine = "none"
    /\ rows = <<>>
    /\ IdleGap
    /\ IdleFetch
    /\ IdleDates
    /\ IdleRest

\* a loader returns the dict of a series that lacks one interior month
LoadSeries(missing, level, step) ==
    /\ routine = "none"
    /\ loaded = <<>>
    /\ missing > 1 /\ missing < SeriesMonths
    /\ loaded' = [m \in (1..SeriesMonths) \ {missing} |-> level + step * m]
    /\ UNCHANGED <<values, routine, changes, rows, fetchVars, dateVars, restVars>>

SeriesToRows ==
    /\ routine = "none"
    /\ loaded # <<>>
    /\ routine' = "SupplyRows"
    /\ rows' = Supply_series_to_panel_rows("m", loaded)
    /\ UNCHANGED <<values, changes, gapVars, fetchVars, dateVars, restVars>>

NextGap ==
    \/ \E missing \in 1..SeriesMonths, level \in GapLevels, step \in GapSteps :
          LoadSeries(missing, level, step)
    \/ SeriesToRows

SpecGap == InitGap /\ [][NextGap]_vars

\* C6: the rows of a 24-month series with one interior month missing have
\* mom_pct undefined at index 0 and at the month that follows the gap, and
\* defined at every other row.
C6_MomUndefinedAfterGap ==
    (routine = "SupplyRows" /\ loaded # <<>>) =>
       \A p \in 1..Len(rows) :
          (rows[p].mom_pct = None) <=>
             (p = 1 \/ rows[p].date # rows[p - 1].date + 1)

----------------------------------------------------------------------------
(* Fetchers: the loop over the data points of one series of a response.    *)
(* A data point is [m, d, value, symbolCode]: the month ordinal and the    *)
(* day of its reference date, the value as the upstream service sent it,   *)
(* and the suppression flag.  A response holds one point per date, in any  *)
(* order.                                                                  *)

\* data points handled per response
MaxObs == 3

\* the reference dates of a response: <<month, day>>; month 0 lies before
\* the cutoff of RatesBonds
RefDates == {<<0, 20>>, <<1, 5>>, <<1, 20>>, <<2, 3>>}
CutoffMonth == 1

\* the values a point may carry: numbers, JSON null, "." and "NaN"
ValueTokens == {"1.0", "1.25", "null", ".", "NaN"}

DataPoints ==
    {dp \in [m : {x[1] : x \in RefDates}, d : {x[2] : x \in RefDates},
             value : ValueTokens, symbolCode : {0, 1}] :
        /\ <<dp.m, dp.d>> \in RefDates
        /\ dp.symbolCode = 1 => dp.value = "1.0"}

\* float(value)
FloatOf(tok) ==
    CASE tok = "1.0"  -> Num(1, 1)
      [] tok = "1.25" -> Num(5, 4)
      [] tok = "NaN"  -> NaN
      [] OTHER        -> NotAFloat

\* dict item assignment d[k] = v
Put(dict, k, v) == [x \in DOMAIN dict \cup {k} |-> IF x = k THEN v ELSE dict[x]]

\* the loop body keeping whatever point of a month comes last in the response
RatesBonds_point_last_seen(mm, dp) ==
    IF dp.m < CutoffMonth THEN mm
    ELSE IF dp.value \in {"null", "", "."} THEN mm
    ELSE IF FloatOf(dp.value) = NotAFloat THEN mm
    ELSE Put(mm, dp.m, <<dp.d, FloatOf(dp.value)>>)

\* RatesBonds.fetch_statcan_vectors_monthly_last, the body of the loop over
\* vectorDataPoint; month_map holds (date, value) per month key
RatesBonds_point(mm, dp) ==
    IF dp.m < CutoffMonth THEN mm
    ELSE IF dp.value \in {"null", "", "."} THEN mm
    ELSE IF FloatOf(dp.value) = NotAFloat THEN mm
    ELSE IF dp.m \notin DOMAIN mm \/ dp.d > mm[dp.m][1]
         THEN Put(mm, dp.m, <<dp.d, FloatOf(dp.value)>>)
         ELSE mm

\* Market.fetch_statcan_vectors, the body of the loop over vectorDataPoint
Market_point(ser, dp) ==
    IF dp.value \in {"null", "", "NaN", "nan"} THEN ser
    ELSE IF FloatOf(dp.value) = NotAFloat THEN ser
    ELSE Put(ser, dp.m, FloatOf(dp.value))

\* InflationLabour.fetch_statcan_cpi, the body of the loop over
\* vectorDataPoint
InflationLabour_point(ser, dp) ==
    IF dp.value \in {"null", "", "NaN"} THEN ser
    ELSE IF dp.symbolCode # 0 THEN ser
    ELSE IF FloatOf(dp.value) = NotAFloat THEN ser
    ELSE Put(ser, dp.m, FloatOf(dp.value))

\* generate_test_data.fetch_boc_series_monthly, the body of the loop over
\* observations
Boc_point(monthly_last, dp) ==
    IF dp.value = "null" THEN monthly_last
    ELSE IF FloatOf(dp.value) = NotAFloat THEN monthly_last
    ELSE Put(monthly_last, dp.m, FloatOf(dp.value))

InitFetch ==
    /\ IdleChanges
    /\ routine = "none"
    /\ rows = <<>>
    /\ IdleGap
    /\ IdleFetch
    /\ IdleDates
    /\ IdleRest

SeenDates == {<<processed[i].m, processed[i].d>> : i \in 1..Len(processed)}

\* the fetcher is called and the response arrives
StartFetch(f) ==
    /\ fetcher = "none"
    /\ fetcher' = f
    /\ UNCHANGED <<processed, month_map, result>>
    /\ UNCHANGED <<values, routine, changes, rows, gapVars, dateVars, restVars>>

\* the next data point of the response, whatever it is
CanProcess(f, dp) ==
    /\ fetcher = f
    /\ ~result.done
    /\ Len(processed) < MaxObs
    /\ <<dp.m, dp.d>> \notin SeenDates

RatesBondsPoint(dp) ==
    /\ CanProcess("RatesBonds", dp)
    /\ month_map' = RatesBonds_point(month_map, dp)
    /\ processed' = Append(processed, dp)
    /\ UNCHANGED <<fetcher, result>>
    /\ UNCHANGED <<values, routine, changes, rows, gapVars, dateVars, restVars>>

MarketPoint(dp) ==
    /\ CanProcess("Market", dp)
    /\ month_map' = Market_point(month_map, dp)
    /\ processed' = Append(processed, dp)
    /\ UNCHANGED <<fetcher, result>>
    /\ UNCHANGED <<values, routine, changes, rows, gapVars, dateVars, restVars>>

InflationLabourPoint(dp) ==
    /\ CanProcess("InflationLabour", dp)
    /\ month_map' = InflationLabour_point(month_map, dp)
    /\ processed' = Append(processed, dp)
    /\ UNCHANGED <<fetcher, result>>
    /\ UNCHANGED <<values, routine, changes, rows, gapVars, dateVars, restVars>>

\* a Valet observation carries a decimal string, null or text, and no
\* suppression flag
BocPoint(dp) ==
    /\ CanProcess("BoC", dp)
    /\ dp.symbolCode = 0
    /\ dp.value # "NaN"
    /\ month_map' = Boc_point(month_map, dp)
    /\ processed' = Append(processed, dp)
    /\ UNCHANGED <<fetcher, result>>
    /\ UNCHANGED <<values, routine, changes, rows, gapVars, dateVars, restVars>>

\* the loop ends and the month key -> value dict is returned
ReturnMonthly ==
    /\ fetcher # "none"
    /\ ~result.done
    /\ result' = [done |-> TRUE,
                  by_month |->
                     IF fetcher = "RatesBonds"
                     THEN [k \in DOMAIN month_map |-> month_map[k][2]]
                     ELSE month_map]
    /\ UNCHANGED <<fetcher, processed, month_map>>
    /\ UNCHANGED <<values, routine, changes, rows, gapVars, dateVars, restVars>>

Fetchers == {"RatesBonds", "Market", "InflationLabour", "BoC"}

NextFetch ==
    \/ \E f \in Fetchers : StartFetch(f)
    \/ \E dp \in DataPoints : RatesBondsPoint(dp)
    \/ \E dp \in DataPoints : MarketPoint(dp)
    \/ \E dp \in DataPoints : InflationLabourPoint(dp)
    \/ \E dp \in DataPoints : BocPoint(dp)
    \/ ReturnMonthly

SpecFetch == InitFetch /\ [][NextFetch]_vars

----------------------------------------------------------------------------
(* Claims about the fetchers (checked under SpecFetch) *)

Handled == {processed[i] : i \in 1..Len(processed)}

MonthsSeen == {dp.m : dp \in Handled}

\* the tokens float() turns into a float
FloatTokens == {"1.0", "1.25", "NaN"}

\* the handled points of month m that are on or after the cutoff and carry
\* a value float() accepts
ValidIn(m) ==
    {dp \in Handled : dp.m = m /\ dp.m >= CutoffMonth /\ dp.value \in FloatTokens}

LatestOf(obs) == CHOOSE dp \in obs : \A o \in obs : o.d <= dp.d

\* C7: in RatesBonds.fetch_statcan_vectors_monthly_last every month with a
\* valid observation on or after the cutoff maps to the value of its valid
\* observation of greatest date, in whatever order the points arrive, and a
\* month without one has no key.
C7_MonthlyLastByDate ==
    fetcher = "RatesBonds" =>
       /\ \A m \in MonthsSeen :
             IF ValidIn(m) = {} THEN m \notin DOMAIN month_map
             ELSE /\ m \in DOMAIN month_map
                  /\ month_map[m][2] = FloatOf(LatestOf(ValidIn(m)).value)
       /\ DOMAIN month_map \subseteq MonthsSeen
       /\ result.done =>
             /\ DOMAIN result.by_month = {m \in MonthsSeen : ValidIn(m) # {}}
             /\ \A m \in DOMAIN result.by_month :
                   result.by_month[m] = FloatOf(LatestOf(ValidIn(m)).value)

\* the fetcher has returned after meeting a month's later observation before
\* its earlier one, the two carrying different values
C7_Witness ==
    /\ fetcher = "RatesBonds"
    /\ result.done
    /\ \E i, j \in 1..Len(processed) :
          /\ i < j
          /\ processed[i].m = processed[j].m
          /\ processed[i].d > processed[j].d
          /\ processed[i] \in ValidIn(processed[i].m)
          /\ processed[j] \in ValidIn(processed[j].m)
          /\ {processed[i].value, processed[j].value} = {"1.0", "1.25"}
          /\ result.by_month[processed[i].m] = FloatOf(processed[i].value)

\* the handled points of month m whose value float() accepts
BocValidIn(m) == {dp \in Handled : dp.m = m /\ dp.value \in FloatTokens}

\* C8: in generate_test_data.fetch_boc_series_monthly every month with a
\* valid observation stores the value of its latest-dated valid
\* observation, for every order of the observations in the response.
C8_BocLatestDatedWins ==
    fetcher = "BoC" =>
       \A m \in MonthsSeen :
          BocValidIn(m) # {} =>
             /\ m \in DOMAIN month_map
             /\ month_map[m] = FloatOf(LatestOf(BocValidIn(m)).value)

\* the handled points of month m that carry a number and no suppression flag
UnflaggedNumbersIn(m) ==
    {dp \in Handled : dp.m = m /\ dp.value \in {"1.0", "1.25"} /\ dp.symbolCode = 0}

StoredValue(m) == IF fetcher = "RatesBonds" THEN month_map[m][2] ELSE month_map[m]

\* C9: in the national-statistics fetchers a point whose value is missing,
\* empty or a sentinel, or whose symbolCode is not 0, is skipped: every
\* month key comes from, and holds the value of, a point of that month with
\* a number and symbolCode 0.
C9_SuppressedPointsSkipped ==
    fetcher \in {"RatesBonds", "Market", "InflationLabour"} =>
       \A m \in DOMAIN month_map :
          \E dp \in UnflaggedNumbersIn(m) : StoredValue(m) = FloatOf(dp.value)

----------------------------------------------------------------------------
(* Date labels and date keys are strings, modelled as sequences of         *)
(* one-character strings; None, the unparseable signal, is the empty       *)
(* sequence (no normaliser is given or returns the empty string).          *)

Digits == {"0", "1", "2", "3", "4", "5", "6", "7", "8", "9"}

DigitVal(c) ==
    CASE c = "0" -> 0 [] c = "1" -> 1 [] c = "2" -> 2 [] c = "3" -> 3
      [] c = "4" -> 4 [] c = "5" -> 5 [] c = "6" -> 6 [] c = "7" -> 7
      [] c = "8" -> 8 [] c = "9" -> 9

DigitChar(n) ==
    CASE n = 0 -> "0" [] n = 1 -> "1" [] n = 2 -> "2" [] n = 3 -> "3"
      [] n = 4 -> "4" [] n = 5 -> "5" [] n = 6 -> "6" [] n = 7 -> "7"
      [] n = 8 -> "8" [] n = 9 -> "9"

\* str.isdigit()
IsDigits(s) == s # <<>> /\ \A i \in 1..Len(s) : s[i] \in Digits

\* int(s) of a string of digits (any other string raises ValueError)
RECURSIVE ToInt(_)
ToInt(s) ==
    IF s = <<>> THEN 0
    ELSE 10 * ToInt(SubSeq(s, 1, Len(s) - 1)) + DigitVal(s[Len(s)])

\* the decimal digits of n, zero-padded to width w
RECURSIVE Pad(_, _)
Pad(n, w) ==
    IF w = 0 THEN <<>> ELSE Pad(n \div 10, w - 1) \o <<DigitChar(n % 10)>>

IsLeap(y) == (y % 4 = 0 /\ y % 100 # 0) \/ y % 400 = 0

DaysInMonth(y, m) ==
    IF m = 2 THEN (IF IsLeap(y) THEN 29 ELSE 28)
    ELSE IF m \in {4, 6, 9, 11} THEN 30 ELSE 31

\* datetime.date(y, m, d) does not raise ValueError
ValidDate(y, m, d) ==
    /\ y >= 1 /\ y <= 9999
    /\ m >= 1 /\ m <= 12
    /\ d >= 1 /\ d <= DaysInMonth(y, m)

\* date(y, m, d).isoformat()
IsoFormat(y, m, d) == Pad(y, 4) \o <<"-">> \o Pad(m, 2) \o <<"-">> \o Pad(d, 2)

NoKey == <<>>

\* s.split(sep)
RECURSIVE Split(_, _)
Split(s, sep) ==
    IF \A i \in 1..Len(s) : s[i] # sep THEN <<s>>
    ELSE LET i == CHOOSE j \in 1..Len(s) :
                     s[j] = sep /\ \A h \in 1..(j - 1) : s[h] # sep
         IN  <<SubSeq(s, 1, i - 1)>> \o Split(SubSeq(s, i + 1, Len(s)), sep)

\* Rentals._normalize_ref_per; an int() or date() that raises is caught and
\* gives None
Rentals_normalize_ref_per(ref_per) ==
    LET s == ref_per
    IN  IF Len(s) = 7 /\ s[5] = "-"
        THEN IF IsDigits(SubSeq(s, 1, 4)) /\ IsDigits(SubSeq(s, 6, 7))
                /\ ValidDate(ToInt(SubSeq(s, 1, 4)), ToInt(SubSeq(s, 6, 7)), 1)
             THEN IsoFormat(ToInt(SubSeq(s, 1, 4)), ToInt(SubSeq(s, 6, 7)), 1)
             ELSE NoKey
        ELSE IF Len(s) = 10 /\ s[5] = "-" /\ s[8] = "-"
        THEN IF IsDigits(SubSeq(s, 1, 4)) /\ IsDigits(SubSeq(s, 6, 7))
                /\ IsDigits(SubSeq(s, 9, 10))
                /\ ValidDate(ToInt(SubSeq(s, 1, 4)), ToInt(SubSeq(s, 6, 7)),
                             ToInt(SubSeq(s, 9, 10)))
             THEN IsoFormat(ToInt(SubSeq(s, 1, 4)), ToInt(SubSeq(s, 6, 7)),
                            ToInt(SubSeq(s, 9, 10)))
             ELSE NoKey
        ELSE IF Len(s) = 4 /\ IsDigits(s)
        THEN IF ValidDate(ToInt(s), 1, 1) THEN IsoFormat(ToInt(s), 1, 1)
             ELSE NoKey
        ELSE IF \E i \in 1..Len(s) : s[i] = "/"
        THEN LET parts == Split(s, "/")
             IN  IF Len(parts) >= 2 /\ IsDigits(parts[1]) /\ IsDigits(parts[2])
                    /\ ValidDate(ToInt(parts[1]), ToInt(parts[2]), 1)
                 THEN IsoFormat(ToInt(parts[1]), ToInt(parts[2]), 1)
                 ELSE NoKey
        ELSE NoKey

\* datetime.strptime(s, "%Y-%m-%d") does not raise ValueError: four digits,
\* a month 1..12 and a day 1..31 of one or two digits, a real date
StrptimeYmdOk(s) ==
    LET parts == Split(s, "-")
    IN  /\ Len(parts) = 3
        /\ Len(parts[1]) = 4 /\ IsDigits(parts[1])
        /\ Len(parts[2]) \in {1, 2} /\ IsDigits(parts[2])
        /\ Len(parts[3]) \in {1, 2} /\ IsDigits(parts[3])
        /\ ValidDate(ToInt(parts[1]), ToInt(parts[2]), ToInt(parts[3]))

\* Market.fetch_statcan_vectors, the step "Normalize to YYYY-MM-01"
Market_date_str(ref_per) ==
    IF StrptimeYmdOk(ref_per)
    THEN LET parts == Split(ref_per, "-")
         IN  Pad(ToInt(parts[1]), 4) \o <<"-">> \o Pad(ToInt(parts[2]), 2)
                \o <<"-", "0", "1">>
    ELSE ref_per

\* etl boc.fetch_boc_series: pd.to_datetime of the observation date, then
\* resample("M"), which labels each month by its last day
Boc_resampled_date(d) ==
    LET parts == Split(d, "-")
        y == ToInt(parts[1])
        m == ToInt(parts[2])
    IN  IsoFormat(y, m, DaysInMonth(y, m))

NoDate == <<>>

\* RatesBonds._parse_ref_per_to_date: the date as <<year, month, day>>, or
\* None for an empty label, another length or a ValueError of strptime
RatesBonds_parse_ref_per_to_date(ref_per) ==
    LET s == IF Len(ref_per) = 7 THEN ref_per \o <<"-", "0", "1">> ELSE ref_per
    IN  IF Len(ref_per) \in {7, 10} /\ StrptimeYmdOk(s)
        THEN LET parts == Split(s, "-")
             IN  <<ToInt(parts[1]), ToInt(parts[2]), ToInt(parts[3])>>
        ELSE NoDate

\* the last day of the date's month in place of the first
RatesBonds_month_start_month_end(d) == <<d[1], d[2], DaysInMonth(d[1], d[2])>>

\* RatesBonds._month_start: d.replace(day=1)
RatesBonds_month_start(d) == <<d[1], d[2], 1>>

\* RatesBonds.fetch_statcan_vectors_monthly_last: the month key of a refPer,
\* _month_start(d).isoformat(); a data point whose date is None is skipped
RatesBonds_month_key(ref_per) ==
    LET d == RatesBonds_parse_ref_per_to_date(ref_per)
    IN  IF d = NoDate THEN NoKey
        ELSE LET m_start == RatesBonds_month_start(d)
             IN  IsoFormat(m_start[1], m_start[2], m_start[3])

\* a call that let an exception escape: the exception's name in place of a
\* key
Escaped(exc) == <<exc>>

UpperLetters == <<"A", "B", "C", "D", "E", "F", "G", "H", "I", "J", "K", "L", "M", "N", "O", "P", "Q", "R", "S", "T", "U", "V", "W", "X", "Y", "Z">>

LowerLetters == <<"a", "b", "c", "d", "e", "f", "g", "h", "i", "j", "k", "l", "m", "n", "o", "p", "q", "r", "s", "t", "u", "v", "w", "x", "y", "z">>

\* str.lower() and str.strip() on the characters of the model
Lower(s) ==
    [i \in 1..Len(s) |->
        IF \E j \in 1..Len(UpperLetters) : UpperLetters[j] = s[i]
        THEN LowerLetters[CHOOSE j \in 1..Len(UpperLetters) : UpperLetters[j] = s[i]]
        ELSE s[i]]

RECURSIVE Strip(_)
Strip(s) ==
    IF s = <<>> THEN s
    ELSE IF Head(s) = " " THEN Strip(Tail(s))
    ELSE IF s[Len(s)] = " " THEN Strip(SubSeq(s, 1, Len(s) - 1))
    ELSE s

\* Supply.MONTH_MAP
MONTH_MAP ==
    <<<<<<"j", "a", "n">>, 1>>,
      <<<<"j", "a", "n", "u", "a", "r", "y">>, 1>>,
      <<<<"f", "e", "b">>, 2>>,
      <<<<"f", "e", "b", "r", "u", "a", "r", "y">>, 2>>,
      <<<<"m", "a", "r">>, 3>>,
      <<<<"m", "a", "r", "c", "h">>, 3>>,
      <<<<"a", "p", "r">>, 4>>,
      <<<<"a", "p", "r", "i", "l">>, 4>>,
      <<<<"m", "a", "y">>, 5>>,
      <<<<"j", "u", "n">>, 6>>,
      <<<<"j", "u", "n", "e">>, 6>>,
      <<<<"j", "u", "l">>, 7>>,
      <<<<"j", "u", "l", "y">>, 7>>,
      <<<<"a", "u", "g">>, 8>>,
      <<<<"a", "u", "g", "u", "s", "t">>, 8>>,
      <<<<"s", "e", "p">>, 9>>,
      <<<<"s", "e", "p", "t">>, 9>>,
      <<<<"s", "e", "p", "t", "e", "m", "b", "e", "r">>, 9>>,
      <<<<"o", "c", "t">>, 10>>,
      <<<<"o", "c", "t", "o", "b", "e", "r">>, 10>>,
      <<<<"n", "o", "v">>, 11>>,
      <<<<"n", "o", "v", "e", "m", "b", "e", "r">>, 11>>,
      <<<<"d", "e", "c">>, 12>>,
      <<<<"d", "e", "c", "e", "m", "b", "e", "r">>, 12>>>>

\* Supply._parse_month: 0 stands for None
Supply_parse_month(month_str) ==
    LET s == Lower(Strip(month_str))
    IN  IF \E i \in 1..Len(MONTH_MAP) : MONTH_MAP[i][1] = s
        THEN MONTH_MAP[CHOOSE i \in 1..Len(MONTH_MAP) : MONTH_MAP[i][1] = s][2]
        ELSE 0

RECURSIVE StripZeros(_)
StripZeros(s) == IF s # <<>> /\ Head(s) = "0" THEN StripZeros(Tail(s)) ELSE s

\* the integer of a string of digits does not fit a C int (2^31 - 1), which
\* makes datetime.date raise OverflowError in place of ValueError
ExceedsCInt(s) ==
    LET t == StripZeros(s)
    IN  \/ Len(t) > 10
        \/ /\ Len(t) = 10
           /\ \/ ToInt(SubSeq(t, 1, 5)) > 21474
              \/ ToInt(SubSeq(t, 1, 5)) = 21474 /\ ToInt(SubSeq(t, 6, 10)) > 83647

\* Supply._make_month_key for a year cell and a month cell holding text of
\* digits and letters; int() raising ValueError and date() raising
\* ValueError are caught
Supply_make_month_key(year_val, month_label) ==
    IF ~IsDigits(year_val) THEN NoKey
    ELSE LET month == Supply_parse_month(month_label)
         IN  IF month = 0 THEN NoKey
             ELSE IF ExceedsCInt(year_val) THEN Escaped("OverflowError")
             ELSE IF ~ValidDate(ToInt(year_val), month, 1) THEN NoKey
             ELSE IsoFormat(ToInt(year_val), month, 1)

NoQuarter == [raised |-> TRUE, year |-> 0, quarter |-> 0]

\* SalesListings._parse_quarter_label: (year, quarter), or ValueError
SalesListings_parse_quarter_label(l) ==
    LET s == Strip(l)
        year_part == SubSeq(s, 1, IF Len(s) < 4 THEN Len(s) ELSE 4)
        qs == {i \in 1..Len(s) : s[i] \in {"Q", "q"}}
        q_index == CHOOSE i \in qs : \A j \in qs : i <= j
    IN  IF s = <<>> THEN NoQuarter
        ELSE IF ~IsDigits(year_part) THEN NoQuarter
        ELSE IF qs = {} \/ q_index + 1 > Len(s) THEN NoQuarter
        ELSE IF s[q_index + 1] \notin Digits THEN NoQuarter
        ELSE IF DigitVal(s[q_index + 1]) \notin {1, 2, 3, 4} THEN NoQuarter
        ELSE [raised |-> FALSE, year |-> ToInt(year_part),
              quarter |-> DigitVal(s[q_index + 1])]

NoMonths == [raised |-> TRUE, keys |-> <<>>]

\* SalesListings._quarter_months, as month keys; date() raises ValueError
\* for a year outside 1..9999
SalesListings_quarter_months(year, quarter) ==
    LET start_month == (quarter - 1) * 3 + 1
    IN  IF \E i \in 0..2 : ~ValidDate(year, start_month + i, 1) THEN NoMonths
        ELSE [raised |-> FALSE,
              keys |-> [i \in 1..3 |-> IsoFormat(year, start_month + i - 1, 1)]]

\* pd.to_datetime(s) of a string, for the forms the model gives it: an ISO
\* date, "YYYY-MM" or "YYYY"; anything else raises
pandas_to_datetime(s) ==
    IF Len(s) = 10 /\ Len(Split(s, "-")) = 3 /\ Len(Split(s, "-")[2]) = 2
          /\ StrptimeYmdOk(s)
    THEN <<ToInt(SubSeq(s, 1, 4)), ToInt(SubSeq(s, 6, 7)), ToInt(SubSeq(s, 9, 10))>>
    ELSE IF Len(s) = 7 /\ s[5] = "-" /\ StrptimeYmdOk(s \o <<"-", "0", "1">>)
    THEN <<ToInt(SubSeq(s, 1, 4)), ToInt(SubSeq(s, 6, 7)), 1>>
    ELSE IF Len(s) = 4 /\ IsDigits(s) /\ ValidDate(ToInt(s), 1, 1)
    THEN <<ToInt(s), 1, 1>>
    ELSE NoDate

\* SalesListings._build_monthly_from_crea_quarterly, the keys one row with a
\* string in its Date column writes: the three months of a quarter label,
\* the month of a date string, none for a string that is neither; the
\* ValueError of _quarter_months is outside the try
SalesListings_row_keys(raw_date) ==
    LET s == Strip(raw_date)
        yq == SalesListings_parse_quarter_label(s)
        d == pandas_to_datetime(s)
    IN  IF s = <<>> \/ Lower(s) = <<"n", "a", "n">> THEN [raised |-> FALSE, keys |-> <<>>]
        ELSE IF yq.raised
        THEN IF d = NoDate THEN [raised |-> FALSE, keys |-> <<>>]
             ELSE [raised |-> FALSE, keys |-> <<IsoFormat(d[1], d[2], 1)>>]
        ELSE SalesListings_quarter_months(yq.year, yq.quarter)

\* the labels of the model: a full date, a year-month, a bare year, a
\* "YYYY/MM" and a quarter label, for these years, months and days
LabelYears == {2023, 2024}
LabelMonths == {1, 2, 10, 12, 13}
LabelDays == {1, 15, 29, 31}

Labels ==
    UNION {
       {IsoFormat(y, m, d), Pad(y, 4) \o <<"-">> \o Pad(m, 2), Pad(y, 4),
        Pad(y, 4) \o <<"/">> \o Pad(m, 2),
        Pad(y, 4) \o <<"Q">> \o Pad((m % 4) + 1, 1)} :
       <<y, m, d>> \in LabelYears \X LabelMonths \X LabelDays}

\* further labels of a CREA Date cell: quarter labels with a hyphen, with
\* year 0, with quarter 5 or none, and text that is no date
CreaLabels ==
    {l \in Labels : (\E i \in 1..Len(l) : l[i] = "Q") \/ pandas_to_datetime(l) # NoDate}
    \cup {<<"2", "0", "2", "4", "-", "Q", "1">>,
          <<"0", "0", "0", "0", "-", "Q", "1">>,
          <<"2", "0", "2", "4", "-", "Q", "5">>,
          <<"2", "0", "2", "4", "-", "Q">>,
          <<" ", "2", "0", "2", "3", " ", "q", "4", " ">>, <<"a", "b", "c">>}

\* the year cells and month cells of a CMHC sheet
SupplyYears ==
    {<<"2", "0", "2", "4">>, <<"0">>, <<"n", ".", "a", ".">>,
     <<"2", "1", "4", "7", "4", "8", "3", "6", "4", "7">>,
     <<"2", "1", "4", "7", "4", "8", "3", "6", "4", "8">>, <<"1", "2", "3", "4", "5", "6", "7", "8", "9", "0", "1">>}

SupplyMonths == {<<"J", "a", "n">>, <<" ", "s", "e", "p", "t", " ">>, <<"D", "e", "c", "e", "m", "b", "e", "r">>, <<"1", "3">>, <<>>}

InitDates ==
    /\ IdleChanges
    /\ routine = "none"
    /\ rows = <<>>
    /\ IdleGap
    /\ IdleFetch
    /\ IdleDates
    /\ IdleRest

NormalizeRentals(l) ==
    /\ normaliser = "none"
    /\ label' = l
    /\ normaliser' = "Rentals"
    /\ key' = Rentals_normalize_ref_per(l)
    /\ passes' = 1
    /\ UNCHANGED key_once
    /\ UNCHANGED <<values, routine, changes, rows, gapVars, fetchVars, restVars>>

NormalizeMarket(l) ==
    /\ normaliser = "none"
    /\ label' = l
    /\ normaliser' = "Market"
    /\ key' = Market_date_str(l)
    /\ passes' = 1
    /\ UNCHANGED key_once
    /\ UNCHANGED <<values, routine, changes, rows, gapVars, fetchVars, restVars>>

\* the Valet service dates every observation "YYYY-MM-DD"
NormalizeBoc(l) ==
    /\ normaliser = "none"
    /\ Len(l) = 10 /\ StrptimeYmdOk(l)
    /\ label' = l
    /\ normaliser' = "Boc"
    /\ key' = Boc_resampled_date(l)
    /\ passes' = 1
    /\ UNCHANGED key_once
    /\ UNCHANGED <<values, routine, changes, rows, gapVars, fetchVars, restVars>>

NormalizeRatesBonds(l) ==
    /\ normaliser = "none"
    /\ label' = l
    /\ normaliser' = "RatesBonds"
    /\ key' = RatesBonds_month_key(l)
    /\ passes' = 1
    /\ UNCHANGED key_once
    /\ UNCHANGED <<values, routine, changes, rows, gapVars, fetchVars, restVars>>

\* Supply.load_cmhc_housing_starts: the key of one sheet row
NormalizeSupply(y, m) ==
    /\ normaliser = "none"
    /\ label' = y \o <<"|">> \o m
    /\ normaliser' = "Supply"
    /\ key' = Supply_make_month_key(y, m)
    /\ passes' = 1
    /\ UNCHANGED key_once
    /\ UNCHANGED <<values, routine, changes, rows, gapVars, fetchVars, restVars>>

\* SalesListings._build_monthly_from_crea_quarterly: the first key written
\* for one row whose Date cell is text
NormalizeCrea(l) ==
    /\ normaliser = "none"
    /\ label' = l
    /\ normaliser' = "Crea"
    /\ key' = LET r == SalesListings_row_keys(l)
              IN  IF r.raised THEN Escaped("ValueError")
                  ELSE IF r.keys = <<>> THEN NoKey ELSE r.keys[1]
    /\ passes' = 1
    /\ UNCHANGED key_once
    /\ UNCHANGED <<values, routine, changes, rows, gapVars, fetchVars, restVars>>

\* the key a normaliser produced is handed to the same normaliser again
Renormalize ==
    /\ passes = 1
    /\ normaliser \in {"Rentals", "RatesBonds"}
    /\ key # NoKey
    /\ key_once' = key
    /\ key' = IF normaliser = "Rentals" THEN Rentals_normalize_ref_per(key)
              ELSE RatesBonds_month_key(key)
    /\ passes' = 2
    /\ UNCHANGED <<label, normaliser>>
    /\ UNCHANGED <<values, routine, changes, rows, gapVars, fetchVars, restVars>>

NextDates ==
    \/ \E l \in Labels : NormalizeRentals(l)
    \/ \E l \in Labels : NormalizeMarket(l)
    \/ \E l \in Labels : NormalizeBoc(l)
    \/ \E l \in Labels : NormalizeRatesBonds(l)
    \/ \E y \in SupplyYears, m \in SupplyMonths : NormalizeSupply(y, m)
    \/ \E l \in CreaLabels : NormalizeCrea(l)
    \/ Renormalize

SpecDates == InitDates /\ [][NextDates]_vars

\* a date key of the form YYYY-MM-01
IsFirstOfMonth(k) ==
    /\ Len(k) = 10
    /\ IsDigits(SubSeq(k, 1, 4)) /\ k[5] = "-"
    /\ IsDigits(SubSeq(k, 6, 7)) /\ k[8] = "-"
    /\ SubSeq(k, 9, 10) = <<"0", "1">>

\* label is the real date YYYY-MM-DD / a year-month YYYY-MM / a year YYYY
IsFullDate(l) ==
    /\ Len(l) = 10 /\ l[5] = "-" /\ l[8] = "-"
    /\ ValidDate(ToInt(SubSeq(l, 1, 4)), ToInt(SubSeq(l, 6, 7)),
                 ToInt(SubSeq(l, 9, 10)))

IsYearMonth(l) ==
    /\ Len(l) = 7 /\ l[5] = "-"
    /\ ValidDate(ToInt(SubSeq(l, 1, 4)), ToInt(SubSeq(l, 6, 7)), 1)

IsYear(l) == Len(l) = 4 /\ IsDigits(l)

\* C10: every date key a normaliser produces has day-of-month 1: a full
\* date YYYY-MM-DD becomes YYYY-MM-01, a year-month YYYY-MM becomes
\* YYYY-MM-01 and a bare year YYYY becomes YYYY-01-01.
C10_KeysAreFirstOfMonth ==
    normaliser # "none" =>
       /\ key # NoKey => IsFirstOfMonth(key)
       /\ IsFullDate(label) => key = SubSeq(label, 1, 8) \o <<"0", "1">>
       /\ IsYearMonth(label) => key = label \o <<"-", "0", "1">>
       /\ IsYear(label) => key = label \o <<"-", "0", "1", "-", "0", "1">>

\* a canonical date key: a real date YYYY-MM-01
IsCanonicalDate(l) == IsFirstOfMonth(l) /\ IsFullDate(l)

\* C21: date normalisation is idempotent: Rentals._normalize_ref_per and the
\* RatesBonds month key return a canonical YYYY-MM-01 date unchanged, and a
\* key normalised a second time is the key of the first pass.
C21_NormaliseIdempotent ==
    normaliser \in {"Rentals", "RatesBonds"} =>
       /\ (passes = 1 /\ IsCanonicalDate(label)) => key = label
       /\ passes = 2 => key = key_once

\* a label that was not canonical has been normalised twice by RatesBonds
C21_Witness ==
    /\ normaliser = "RatesBonds"
    /\ passes = 2
    /\ label # key_once
    /\ key = key_once

\* C22: for every label the normalisers (Rentals._normalize_ref_per,
\* Supply._make_month_key, the label parsing of
\* SalesListings._build_monthly_from_crea_quarterly) return a date key or
\* the unparseable signal; no exception escapes.
C22_NormalisersNeverRaise ==
    normaliser \in {"Rentals", "Supply", "Crea"} =>
       key = NoKey \/ IsFullDate(key)

----------------------------------------------------------------------------
(* etl main: the regenerate-in-place run over data/processed/panel.json.   *)
(* A DataFrame is the sequence of its rows; a cell is a float [k, n, d],   *)
(* the missing value (NaN, pd.NA) being None.                              *)

Sign(n) == IF n < 0 THEN 0 - 1 ELSE IF n > 0 THEN 1 ELSE 0

\* float division x / y as numpy does it: x / 0 is +/-inf, 0 / 0 is NaN
FloatDiv(x, y) ==
    IF x = None \/ y = None THEN None
    ELSE IF IsNum(x) /\ IsNum(y)
    THEN IF y.n # 0 THEN Num(x.n * y.d, x.d * y.n)
         ELSE IF x.n = 0 THEN None ELSE Inf(Sign(x.n))
    ELSE IF IsNum(y) THEN Inf(IF y.n < 0 THEN 0 - x.n ELSE x.n)
    ELSE IF IsNum(x) THEN Num(0, 1)
    ELSE None

\* (x / y - 1.0) * 100.0
FloatPct(x, y) ==
    LET q == FloatDiv(x, y)
    IN  IF IsNum(q) THEN Num(100 * (q.n - q.d), q.d) ELSE q

\* the sum of a sequence of numbers, as a number
RECURSIVE FloatSum(_)
FloatSum(s) ==
    IF s = <<>> THEN Num(0, 1)
    ELSE LET t == FloatSum(Tail(s))
         IN  Num(Head(s).n * t.d + t.n * Head(s).d, Head(s).d * t.d)

\* the mean of a non-empty sequence of floats; a missing member makes it
\* missing
FloatMean(s) ==
    IF \E i \in 1..Len(s) : ~IsNum(s[i]) THEN None
    ELSE LET t == FloatSum(s) IN Num(t.n, t.d * Len(s))

\* the metrics of the rows of the model, in the order of their names
MetricOrder ==
    <<"active_listings", "avg_price", "housing_starts", "moi",
      "new_listings", "sales", "snlr">>

MetricRank(m) == CHOOSE i \in 1..Len(MetricOrder) : MetricOrder[i] = m

\* a row of the panel; the model has one region and one segment
EtlRow(date, metric, value, unit, source, mom_pct, yoy_pct, ma3) ==
    [date |-> date, region |-> "canada", segment |-> "all",
     metric |-> metric, value |-> value, unit |-> unit, source |-> source,
     mom_pct |-> mom_pct, yoy_pct |-> yoy_pct, ma3 |-> ma3]

\* row a sorts no later than row b by (metric, region, segment, date)
RowLeq(a, b) ==
    \/ MetricRank(a.metric) < MetricRank(b.metric)
    \/ /\ a.metric = b.metric
       /\ a.region = b.region /\ a.segment = b.segment
       /\ a.date <= b.date

\* r put after the rows of a sorted frame that sort no later than it
RECURSIVE InsertRow(_, _)
InsertRow(sorted, r) ==
    IF sorted = <<>> THEN <<r>>
    ELSE IF RowLeq(Head(sorted), r)
         THEN <<Head(sorted)>> \o InsertRow(Tail(sorted), r)
         ELSE <<r>> \o sorted

\* df.sort_values(["metric", "region", "segment", "date"]): a stable sort
RECURSIVE sort_values(_)
sort_values(df) ==
    IF df = <<>> THEN <<>>
    ELSE InsertRow(sort_values(SubSeq(df, 1, Len(df) - 1)), df[Len(df)])

SameGroup(a, b) ==
    a.metric = b.metric /\ a.region = b.region /\ a.segment = b.segment

\* the positions of the rows of r's group in a frame, in frame order
GroupPositions(df, r) == {i \in 1..Len(df) : SameGroup(df[i], r)}

\* g["value"] of the group of row p, up to and including row p
GroupValuesUpTo(df, p) ==
    LET idx == SortedKeys({i \in GroupPositions(df, df[p]) : i <= p})
    IN  [q \in 1..Len(idx) |-> df[idx[q]].value]

\* add_changes of a non-empty frame: sort, then _with_changes per
\* (metric, region, segment) group
add_changes(df) ==
    LET sorted == sort_values(df)
    IN  [p \in 1..Len(sorted) |->
            LET vals == GroupValuesUpTo(sorted, p)
                q    == Len(vals)
            IN  [sorted[p] EXCEPT
                   !.mom_pct = IF q <= 1 THEN None
                               ELSE FloatPct(vals[q], vals[q - 1]),
                   !.yoy_pct = IF q <= YearLag THEN None
                               ELSE FloatPct(vals[q], vals[q - YearLag]),
                   !.ma3 = IF q < RollingWindow THEN None
                           ELSE FloatMean(SubSeq(vals, q - RollingWindow + 1, q))]]

\* pivot_table(index=[date, region, segment], columns=metric, values=value):
\* the mean of the values present per key and metric.  Its rows are the keys
\* and its columns the metrics that have a value somewhere.
PivotDates(df) == SortedKeys({df[i].date : i \in {j \in 1..Len(df) : df[j].value # None}})

PivotColumns(df) == {df[i].metric : i \in {j \in 1..Len(df) : df[j].value # None}}

PivotCell(df, d, m) ==
    LET idx == SortedKeys({i \in 1..Len(df) :
                   df[i].date = d /\ df[i].metric = m /\ df[i].value # None})
    IN  IF idx = <<>> THEN None
        ELSE FloatMean([q \in 1..Len(idx) |-> df[idx[q]].value])

\* pivot["sales"].replace({0: pd.NA})
ReplaceZero(x) == IF IsNum(x) /\ x.n = 0 THEN None ELSE x

\* the snlr column of the pivot, when it has one
PivotSnlr(df, d) ==
    IF {"sales", "new_listings"} \subseteq PivotColumns(df)
    THEN FloatDiv(PivotCell(df, d, "sales"), PivotCell(df, d, "new_listings"))
    ELSE PivotCell(df, d, "snlr")

\* the moi column of the pivot, when it has one
PivotMoi(df, d) ==
    IF {"sales", "active_listings"} \subseteq PivotColumns(df)
    THEN FloatDiv(PivotCell(df, d, "active_listings"),
                  ReplaceZero(PivotCell(df, d, "sales")))
    ELSE PivotCell(df, d, "moi")

HasSnlr(df) ==
    {"sales", "new_listings"} \subseteq PivotColumns(df) \/ "snlr" \in PivotColumns(df)

HasMoi(df) ==
    {"sales", "active_listings"} \subseteq PivotColumns(df) \/ "moi" \in PivotColumns(df)

\* pivot.melt(...) with unit and source set: one row per row of the pivot
\* for snlr, then one per row for moi
long_extra(df) ==
    LET dates == PivotDates(df)
        snlr  == IF HasSnlr(df)
                 THEN [p \in 1..Len(dates) |->
                         EtlRow(dates[p], "snlr", PivotSnlr(df, dates[p]),
                                "ratio", "derived", None, None, None)]
                 ELSE <<>>
        moi   == IF HasMoi(df)
                 THEN [p \in 1..Len(dates) |->
                         EtlRow(dates[p], "moi", PivotMoi(df, dates[p]),
                                "ratio", "derived", None, None, None)]
                 ELSE <<>>
    IN  snlr \o moi

\* compute_snlr_moi
compute_snlr_moi(df) ==
    IF df = <<>> THEN df
    ELSE df \o long_extra(df)

\* df.to_json(orient="records"): NaN and the infinities are written as null
JsonFloat(x) == IF IsNum(x) THEN x ELSE None

to_json(df) ==
    [p \in 1..Len(df) |->
        [df[p] EXCEPT !.value = JsonFloat(@), !.mom_pct = JsonFloat(@),
                      !.yoy_pct = JsonFloat(@), !.ma3 = JsonFloat(@)]]

\* a load that lets the ValueError of pd.read_json escape
load_existing_panel_no_except(file) ==
    IF file.kind = "array" THEN [raised |-> FALSE, rows |-> file.rows]
    ELSE IF file.kind = "corrupt" THEN [raised |-> TRUE, rows |-> <<>>]
    ELSE [raised |-> FALSE, rows |-> <<>>]

\* load_existing_panel: the frame read from panel.json, empty when the file
\* is absent, zero-length or not JSON
load_existing_panel(file) ==
    IF file.kind = "array" THEN [raised |-> FALSE, rows |-> file.rows]
    ELSE [raised |-> FALSE, rows |-> <<>>]

\* write_json: "[]" for an empty frame, its records otherwise
write_json(df) == [kind |-> "array", rows |-> to_json(df)]

\* TAB_FILES
TabNames ==
    {"prices", "sales_listings", "supply_pipeline", "rates_bonds",
     "inflation_labour", "credit_stress", "market_risk", "rentals"}

\* the mask main passes to save_tab for each tab; of the metrics of the
\* model "avg_price" alone matches the pattern "hpi|avg_price|teranet"
TabMask(tab, m) ==
    CASE tab = "prices" -> m \in {"avg_price"}
      [] tab = "sales_listings" ->
            m \in {"sales", "new_listings", "active_listings", "snlr", "moi"}
      [] tab = "supply_pipeline" ->
            m \in {"starts", "completions", "under_construction", "permits"}
      [] tab = "rates_bonds" ->
            m \in {"policy_rate", "mortgage_5y", "gov_2y_yield", "gov_5y_yield",
                   "gov_10y_yield", "mortgage_5y_spread"}
      [] tab = "inflation_labour" ->
            m \in {"cpi_headline", "cpi_shelter", "cpi_rent", "wage_index",
                   "unemployment_rate"}
      [] tab = "credit_stress" ->
            m \in {"insolvencies", "bankruptcies", "mortgage_arrears",
                   "consumer_delinquency"}
      [] tab = "market_risk" -> m \in {"tsx_index", "hy_spread", "risk_composite"}
      [] tab = "rentals" ->
            m \in {"avg_rent", "rent_index", "vacancy_rate", "rent_inflation"}

\* save_tab
save_tab(df, tab) == write_json(SelectSeq(df, LAMBDA r : TabMask(tab, r.metric)))

\* rows of the panel.json found by the first run, and runs of etl main
MaxPanelRows == 3
MaxRuns == 3

\* the months, metrics and values of the rows found by the first run
EtlDates == {1, 2}
PanelMetrics ==
    {"sales", "new_listings", "active_listings", "avg_price", "housing_starts"}
EtlValues == {0, 3}

\* the cells <<metric, date>> of a set, in the order of (metric, date)
RECURSIVE SortedCells(_)
SortedCells(S) ==
    IF S = {} THEN <<>>
    ELSE LET c == CHOOSE x \in S : \A y \in S :
                     \/ MetricRank(x[1]) < MetricRank(y[1])
                     \/ x[1] = y[1] /\ x[2] <= y[2]
         IN  <<c>> \o SortedCells(S \ {c})

\* the canonical rows of a cell -> value assignment, one row per key
CanonicalRows(f) ==
    LET cells == SortedCells(DOMAIN f)
    IN  [p \in 1..Len(cells) |->
            EtlRow(cells[p][2], cells[p][1], Num(f[cells[p]], 1),
                   "count", "source", None, None, None)]

\* the states panel.json may be in before the first run: absent,
\* zero-length, not JSON, "[]", or an array of canonical rows
InitialPanels ==
    {NoFile, [kind |-> "zero", rows |-> <<>>], [kind |-> "corrupt", rows |-> <<>>],
     [kind |-> "array", rows |-> <<>>]}
    \cup
    {[kind |-> "array", rows |-> CanonicalRows(f)] :
        f \in UNION {[C -> EtlValues] :
                       C \in {D \in SUBSET (PanelMetrics \X EtlDates) :
                                 Cardinality(D) \in 1..MaxPanelRows}}}

InitEtl ==
    /\ IdleChanges
    /\ routine = "none"
    /\ rows = <<>>
    /\ IdleGap
    /\ IdleFetch
    /\ IdleDates
    /\ panel_file \in InitialPanels
    /\ tab_files = <<>>
    /\ df_loaded = NotLoaded
    /\ etl_runs = 0
    /\ etl_exit = "none"
    /\ IdleScripts
    /\ IdleJson
    /\ IdleCredit
    /\ IdleCrea
    /\ IdleRent
    /\ IdleUpd

\* etl main
EtlMain ==
    /\ etl_runs < MaxRuns
    /\ LET ld == load_existing_panel(panel_file)
           df == IF ld.rows # <<>>
                 THEN compute_snlr_moi(add_changes(ld.rows))
                 ELSE ld.rows
       IN  /\ df_loaded' = [from |-> panel_file.kind, rows |-> ld.rows]
           /\ IF ld.raised
              THEN /\ etl_exit' = "raised"
                   /\ UNCHANGED <<panel_file, tab_files>>
              ELSE /\ etl_exit' = "ok"
                   /\ panel_file' = write_json(df)
                   /\ tab_files' = [t \in TabNames |-> save_tab(df, t)]
    /\ etl_runs' = etl_runs + 1
    /\ UNCHANGED <<values, routine, changes, rows, gapVars, fetchVars, dateVars,
                   scriptVars, jsonVars, creditVars, creaVars,
                   rentVars, updVars>>

NextEtl == EtlMain

SpecEtl == InitEtl /\ [][NextEtl]_vars

----------------------------------------------------------------------------
(* Claims about etl main (checked under SpecEtl) *)

PanelRows == panel_file.rows

RowKey(r) == <<r.metric, r.region, r.segment, r.date>>

\* C11: in the panel etl main writes, after any number of consecutive runs,
\* no two rows share the same (metric, region, segment, date).
C11_RowKeysUnique ==
    etl_exit = "ok" =>
       \A i, j \in 1..Len(PanelRows) :
          i # j => RowKey(PanelRows[i]) # RowKey(PanelRows[j])

\* the value the frame loaded by the run has for metric m at date d
InputValue(m, d) ==
    IF \E i \in 1..Len(df_loaded.rows) :
          df_loaded.rows[i].metric = m /\ df_loaded.rows[i].date = d
    THEN (CHOOSE r \in {df_loaded.rows[i] : i \in 1..Len(df_loaded.rows)} :
             r.metric = m /\ r.date = d).value
    ELSE None

\* the panel written holds a row of metric m at date d
Emitted(m, d) ==
    \E i \in 1..Len(PanelRows) : PanelRows[i].metric = m /\ PanelRows[i].date = d

NonZero(x) == IsNum(x) /\ x.n # 0

\* C12: a derived row (snlr, moi) is emitted for a key if and only if both
\* input series have a value at that key and the denominator is non-zero;
\* where an input is missing no derived row is emitted, not even a null one.
C12_DerivedRowIffBothInputs ==
    (etl_runs = 1 /\ etl_exit = "ok") =>
       \A d \in EtlDates :
          /\ Emitted("snlr", d) <=>
                (IsNum(InputValue("sales", d)) /\ NonZero(InputValue("new_listings", d)))
          /\ Emitted("moi", d) <=>
                (IsNum(InputValue("active_listings", d)) /\ NonZero(InputValue("sales", d)))

\* C13: when the denominator of a derived ratio is zero (new_listings = 0
\* for snlr, sales = 0 for moi) no derived row is emitted for that date.
C13_ZeroDenominatorNoRow ==
    (etl_runs = 1 /\ etl_exit = "ok") =>
       \A d \in EtlDates :
          /\ InputValue("new_listings", d) = Num(0, 1) => ~Emitted("snlr", d)
          /\ InputValue("sales", d) = Num(0, 1) => ~Emitted("moi", d)

\* C16: from any initial state of panel.json, when etl main finishes,
\* panel.json and each of the eight tab files exist and hold a JSON array,
\* the empty one when no row belongs to the file.
C16_EveryFileWritten ==
    etl_runs >= 1 =>
       /\ etl_exit = "ok"
       /\ panel_file.kind = "array"
       /\ DOMAIN tab_files = TabNames
       /\ \A t \in DOMAIN tab_files :
             /\ tab_files[t].kind = "array"
             /\ (\A i \in 1..Len(PanelRows) : ~TabMask(t, PanelRows[i].metric))
                   => tab_files[t].rows = <<>>
       /\ df_loaded.rows = <<>> => PanelRows = <<>>

\* the first run found a panel.json that is not JSON and has finished
C16_Witness ==
    /\ etl_runs = 1
    /\ df_loaded.from = "corrupt"
    /\ panel_file = [kind |-> "array", rows |-> <<>>]
    /\ DOMAIN tab_files = TabNames
    /\ tab_files["rentals"] = [kind |-> "array", rows |-> <<>>]

\* C18: a run of etl main that follows another, with no external change,
\* leaves panel.json and every tab file with exactly the rows they had.
C18_RerunChangesNothing ==
    [][(etl_exit = "ok" /\ etl_exit' = "ok") =>
          (panel_file' = panel_file /\ tab_files' = tab_files)]_vars

\* the tab files that hold row r
TabsHolding(r) ==
    {t \in DOMAIN tab_files :
        \E i \in 1..Len(tab_files[t].rows) : tab_files[t].rows[i] = r}

\* C19: the panel a run writes holds exactly the rows of the tab files of
\* the run: every row of a tab file is in the panel and every panel row is
\* in exactly one tab file.
C19_PanelIsUnionOfTabs ==
    etl_exit = "ok" =>
       /\ \A t \in DOMAIN tab_files : \A i \in 1..Len(tab_files[t].rows) :
             \E j \in 1..Len(PanelRows) : PanelRows[j] = tab_files[t].rows[i]
       /\ \A j \in 1..Len(PanelRows) :
             Cardinality(TabsHolding(PanelRows[j])) = 1

----------------------------------------------------------------------------
(* The scripts pipeline: the source scripts of src/scripts, each with its  *)
(* generate_* entry point, and the two orchestrators generate_data.main    *)
(* and generate_test_data.main.  A row list is abstracted to the list of   *)
(* metrics that got rows, in the order the code appends them; a fetch or a *)
(* file read is abstracted to what it met: a usable answer ("ok"), an      *)
(* answer without data points ("no_data"), or the exception urlopen or the *)
(* JSON parser raised.                                                     *)

\* the exceptions of a transient fetch failure: HTTP error, connection
\* error, timeout, malformed JSON (json.JSONDecodeError is a ValueError)
Failures == {"HTTPError", "URLError", "TimeoutError", "JSONDecodeError"}

Outcomes == {"ok", "no_data"} \cup Failures

\* a workbook or raw file of data/raw
FileStates == {"present", "missing"}

Returned(exc, rs) == [raised |-> exc, rows |-> rs]

Fetched(exc, got) == [raised |-> exc, data |-> got]

\* the rows of one series: none when the series is empty
SeriesRows(ms, got) == IF got THEN ms ELSE <<>>

JsonFile(rs) == [kind |-> "array", rows |-> rs]

\* Overview.generate_overview: returns [] and writes nothing
Overview_generate_overview == Returned("none", <<>>)

\* Prices.generate_prices: the MLS HPI workbook must exist
Prices_generate_prices(mls) ==
    IF mls = "missing"
    THEN Returned("FileNotFoundError", <<>>)
    ELSE Returned("none", <<"hpi_benchmark", "hpi_type", "avg_price">>)

\* SalesListings.fetch_statcan_absorption_components: every failure is caught
SalesListings_fetch_statcan_absorption_components(o) == Fetched("none", o = "ok")

\* SalesListings.generate_sales: the CREA workbook must exist; the StatCan
\* absorption series is optional
SalesListings_generate_sales(crea, o) ==
    IF crea = "missing"
    THEN Returned("FileNotFoundError", <<>>)
    ELSE Returned("none",
             <<"sales", "new_listings", "active_listings", "snlr", "moi">>
             \o SeriesRows(<<"absorption_rate">>,
                    SalesListings_fetch_statcan_absorption_components(o).data))

\* RatesBonds._http_post_json: HTTPError and URLError are caught and raised
\* again as RuntimeError; nothing else is caught
RatesBonds__http_post_json(o) ==
    IF o \in {"HTTPError", "URLError"} THEN Fetched("RuntimeError", FALSE)
    ELSE IF o \in Failures THEN Fetched(o, FALSE)
    ELSE Fetched("none", o = "ok")

\* RatesBonds.fetch_statcan_vectors_monthly_last: one POST for all vectors
RatesBonds_fetch_statcan_vectors_monthly_last(o) == RatesBonds__http_post_json(o)

\* RatesBonds.generate_rates: no try around the fetch
RatesBonds_generate_rates(o) ==
    LET f == RatesBonds_fetch_statcan_vectors_monthly_last(o)
    IN  IF f.raised # "none"
        THEN Returned(f.raised, <<>>)
        ELSE Returned("none",
                 SeriesRows(<<"policy_rate", "repo_rate", "mortgage_5y",
                              "gov_2y_yield", "gov_10y_yield">>, f.data))

\* InflationLabour.fetch_statcan_cpi, fetch_statcan_wage_index and
\* fetch_statcan_unemployment_rate: the four failures are caught
InflationLabour_fetch(o) == Fetched("none", o = "ok")

\* InflationLabour.generate_inflation: a series whose fetch failed is left out
InflationLabour_generate_inflation(o_cpi, o_wage, o_unemp) ==
    Returned("none",
        SeriesRows(<<"cpi_headline", "cpi_shelter", "cpi_rent">>,
                   InflationLabour_fetch(o_cpi).data)
        \o SeriesRows(<<"wage_index">>, InflationLabour_fetch(o_wage).data)
        \o SeriesRows(<<"unemployment_rate">>, InflationLabour_fetch(o_unemp).data))

\* Credit.fetch_statcan_vectors: urlopen and json.loads outside any try
Credit_fetch_statcan_vectors(o) ==
    IF o \in Failures THEN Fetched(o, FALSE) ELSE Fetched("none", o = "ok")

\* Credit.load_household_credit_from_statcan and
\* load_business_credit_from_statcan: an empty frame raises RuntimeError
Credit_load_credit_from_statcan(o) ==
    LET f == Credit_fetch_statcan_vectors(o)
    IN  IF f.raised # "none" THEN f
        ELSE IF ~f.data THEN Fetched("RuntimeError", FALSE)
        ELSE f

\* Credit.build_credit_panel: household credit, business credit, the
\* insolvency and delinquency workbooks (read_excel), then the BIS series,
\* whose loader catches every exception
Credit_build_credit_panel(o_hh, o_bus, raw, o_bis) ==
    LET hh  == Credit_load_credit_from_statcan(o_hh)
        bus == Credit_load_credit_from_statcan(o_bus)
    IN  IF hh.raised # "none" THEN Returned(hh.raised, <<>>)
        ELSE IF bus.raised # "none" THEN Returned(bus.raised, <<>>)
        ELSE IF raw = "missing" THEN Returned("FileNotFoundError", <<>>)
        ELSE Returned("none",
                 <<"household_non_mortgage_loans", "household_mortgage_loans",
                   "household_mortgage_share_of_credit",
                   "business_total_debt", "business_equity",
                   "business_debt_to_equity",
                   "household_default_rate", "business_default_rate",
                   "household_mortgage_delinquency_rate">>
                 \o SeriesRows(<<"business_nfc_dsr">>, o_bis = "ok"))

\* Credit.generate_credit: the rows, and panel_credit.json written from them
Credit_generate_credit(d, o_hh, o_bus, raw, o_bis) ==
    LET r == Credit_build_credit_panel(o_hh, o_bus, raw, o_bis)
    IN  [ret  |-> r,
         disk |-> IF r.raised = "none"
                  THEN [d EXCEPT !["panel_credit.json"] = JsonFile(r.rows)]
                  ELSE d]

\* Market.fetch_statcan_vectors: HTTPError, URLError and JSONDecodeError are
\* caught; a timeout while the body is read is not
Market_fetch_statcan_vectors(o) ==
    IF o = "TimeoutError" THEN Fetched(o, FALSE) ELSE Fetched("none", o = "ok")

\* Market._read_alphavantage_candles: a missing raw file gives {}
Market__read_alphavantage_candles(candles) == Fetched("none", candles = "present")

\* Market.generate_market: gdp, tsx, xre, money; market.json is written only
\* when there are rows
Market_generate_market(d, o_gdp, tsx, xre, o_money) ==
    LET gdp   == Market_fetch_statcan_vectors(o_gdp)
        money == Market_fetch_statcan_vectors(o_money)
        r == IF gdp.raised # "none" THEN Returned(gdp.raised, <<>>)
             ELSE IF money.raised # "none" THEN Returned(money.raised, <<>>)
             ELSE Returned("none",
                      SeriesRows(<<"ca_real_gdp">>, gdp.data)
                      \o SeriesRows(<<"tsx_composite_index">>,
                             Market__read_alphavantage_candles(tsx).data)
                      \o SeriesRows(<<"xre_price_index">>,
                             Market__read_alphavantage_candles(xre).data)
                      \o SeriesRows(<<"ca_m2", "ca_m2pp">>, money.data))
    IN  [ret  |-> r,
         disk |-> IF r.raised = "none" /\ r.rows # <<>>
                  THEN [d EXCEPT !["market.json"] = JsonFile(r.rows)]
                  ELSE d]

\* Supply.fetch_statcan_series: the four failures are caught
Supply_fetch_statcan_series(o) == Fetched("none", o = "ok")

\* Supply.generate_supply: a missing CMHC workbook is skipped with a warning
Supply_generate_supply(cmhc, o_inv, o_vac) ==
    Returned("none",
        SeriesRows(<<"housing_starts", "under_construction", "completions">>,
                   cmhc = "present")
        \o SeriesRows(<<"investment_construction">>,
                      Supply_fetch_statcan_series(o_inv).data)
        \o SeriesRows(<<"vacancy_rate">>, Supply_fetch_statcan_series(o_vac).data))

\* the call generate_rentals() of generate_data.main: Rentals.generate_rentals
\* has two required parameters, so the call raises TypeError
Rentals_generate_rentals_no_arguments == Returned("TypeError", <<>>)

\* the run's surroundings: the workbooks, the raw files, the network
Envs ==
    [mls : FileStates, crea : FileStates, raw : FileStates,
     candles : FileStates, net : Outcomes]

\* generate_data.main: the nine generators one after another with no try,
\* then the concatenation written to panel.json
generate_data_main(d, env) ==
    LET overview  == Overview_generate_overview
        prices    == Prices_generate_prices(env.mls)
        sales     == SalesListings_generate_sales(env.crea, env.net)
        rentals   == Rentals_generate_rentals_no_arguments
        rates     == RatesBonds_generate_rates(env.net)
        inflation == InflationLabour_generate_inflation(env.net, env.net, env.net)
        before_credit == <<overview, prices, sales, rentals, rates, inflation>>
        reached_credit ==
            \A i \in 1..Len(before_credit) : before_credit[i].raised = "none"
        credit    == Credit_generate_credit(d, env.net, env.net, env.raw, env.net)
        d_credit  == IF reached_credit THEN credit.disk ELSE d
        reached_market == reached_credit /\ credit.ret.raised = "none"
        market    == Market_generate_market(d_credit, env.net, env.candles,
                                            env.candles, env.net)
        d_market  == IF reached_market THEN market.disk ELSE d_credit
        supply    == Supply_generate_supply(env.raw, env.net, env.net)
        gens      == before_credit \o <<credit.ret, market.ret, supply>>
        failed    == {i \in 1..Len(gens) : gens[i].raised # "none"}
        first     == CHOOSE i \in failed : \A j \in failed : i <= j
        panel     == overview.rows \o prices.rows \o sales.rows \o rentals.rows
                     \o rates.rows \o inflation.rows \o credit.ret.rows
                     \o market.ret.rows \o supply.rows
    IN  IF failed # {}
        THEN [ret |-> Returned(gens[first].raised, <<>>), disk |-> d_market]
        ELSE [ret  |-> Returned("none", panel),
              disk |-> [d_market EXCEPT !["panel.json"] = JsonFile(panel)]]

\* the series of generate_rates_from_boc, in the order of series_by_metric
BocMetrics ==
    <<"policy_rate", "gov_2y_yield", "gov_5y_yield", "gov_10y_yield", "mortgage_5y">>

\* generate_test_data.fetch_boc_series_monthly: one call per series; a
\* failed call is logged and the loop goes on to the next series
TestData_fetch_boc_series_monthly(outs) == [i \in DOMAIN outs |-> outs[i] = "ok"]

RECURSIVE BocRows(_, _)
BocRows(got, i) ==
    IF i > Len(BocMetrics) THEN <<>>
    ELSE SeriesRows(<<BocMetrics[i]>>, got[i]) \o BocRows(got, i + 1)

\* generate_test_data.generate_rates_from_boc: a metric per series that has
\* months, then the spread where mortgage_5y and gov_5y_yield both have rows
TestData_generate_rates_from_boc(outs) ==
    LET got == TestData_fetch_boc_series_monthly(outs)
    IN  Returned("none",
            BocRows(got, 1) \o SeriesRows(<<"mortgage_5y_spread">>, got[5] /\ got[3]))

\* generate_test_data.generate_rates: any exception becomes an empty list
TestData_generate_rates(outs) ==
    LET r == TestData_generate_rates_from_boc(outs)
    IN  IF r.raised # "none" THEN Returned("none", <<>>) ELSE r

\* generate_test_data.generate_inflation: three caught fetches
TestData_generate_inflation(o) ==
    Returned("none",
        SeriesRows(<<"cpi_headline", "cpi_shelter", "cpi_rent",
                     "wage_index", "unemployment_rate">>, o = "ok"))

\* generate_test_data.main: five generators, panel.json and the five tab files
generate_test_data_main(d, outs, o) ==
    LET prices    == <<"hpi_benchmark", "avg_price", "teranet_hpi">>
        sales     == <<"sales", "new_listings", "active_listings", "snlr", "moi">>
        rentals   == <<"avg_rent", "vacancy_rate", "rent_index", "rent_inflation">>
        rates     == TestData_generate_rates(outs).rows
        inflation == TestData_generate_inflation(o).rows
        panel     == prices \o sales \o rentals \o rates \o inflation
    IN  [ret  |-> Returned("none", panel),
         disk |-> [d EXCEPT !["panel.json"] = JsonFile(panel),
                            !["prices.json"] = JsonFile(prices),
                            !["sales_listings.json"] = JsonFile(sales),
                            !["rentals.json"] = JsonFile(rentals),
                            !["rates_bonds.json"] = JsonFile(rates),
                            !["inflation_labour.json"] = JsonFile(inflation)]]

\* script entry points run in one behaviour
MaxScriptRuns == 2

InitScripts ==
    /\ IdleChanges
    /\ routine = "none"
    /\ rows = <<>>
    /\ IdleGap
    /\ IdleFetch
    /\ IdleDates
    /\ IdleRest

\* what every entry point leaves behind
Ran(name, ups, ret, d) ==
    /\ call' = name
    /\ upstream' = ups
    /\ returned' = ret
    /\ disk' = d
    /\ script_runs' = script_runs + 1
    /\ UNCHANGED <<values, routine, changes, rows, gapVars, fetchVars, dateVars,
                   etlVars, jsonVars, creditVars, creaVars,
                   rentVars, updVars>>

GenerateOverview ==
    /\ script_runs < MaxScriptRuns
    /\ Ran("generate_overview", <<>>, Overview_generate_overview, disk)

\* Prices.main
PricesMain ==
    /\ script_runs < MaxScriptRuns
    /\ \E mls \in FileStates :
           LET r == Prices_generate_prices(mls)
           IN  Ran("Prices.main", <<mls>>, r,
                   IF r.raised = "none"
                   THEN [disk EXCEPT !["prices.json"] = JsonFile(r.rows)]
                   ELSE disk)

\* RatesBonds.main
RatesBondsMain ==
    /\ script_runs < MaxScriptRuns
    /\ \E o \in Outcomes :
           LET r == RatesBonds_generate_rates(o)
           IN  Ran("RatesBonds.main", <<o>>, r,
                   IF r.raised = "none"
                   THEN [disk EXCEPT !["rates_bonds.json"] = JsonFile(r.rows)]
                   ELSE disk)

GenerateCredit ==
    /\ script_runs < MaxScriptRuns
    /\ \E o_hh \in Outcomes, o_bus \in Outcomes, raw \in FileStates,
          o_bis \in {"ok", "URLError"} :
           LET c == Credit_generate_credit(disk, o_hh, o_bus, raw, o_bis)
           IN  Ran("generate_credit", <<o_hh, o_bus, raw, o_bis>>, c.ret, c.disk)

GenerateMarket ==
    /\ script_runs < MaxScriptRuns
    /\ \E o_gdp \in Outcomes, tsx \in FileStates, xre \in FileStates,
          o_money \in Outcomes :
           LET m == Market_generate_market(disk, o_gdp, tsx, xre, o_money)
           IN  Ran("generate_market", <<o_gdp, tsx, xre, o_money>>, m.ret, m.disk)

GenerateDataMain ==
    /\ script_runs < MaxScriptRuns
    /\ \E env \in Envs :
           LET m == generate_data_main(disk, env)
           IN  Ran("generate_data.main",
                   <<env.mls, env.crea, env.raw, env.candles, env.net>>,
                   m.ret, m.disk)

GenerateTestDataMain ==
    /\ script_runs < MaxScriptRuns
    /\ \E failing \in SUBSET (1..Len(BocMetrics)), kind \in Outcomes \ {"ok"} :
           \E o \in {"ok", kind} :
               LET outs == [i \in 1..Len(BocMetrics) |->
                               IF i \in failing THEN kind ELSE "ok"]
                   m == generate_test_data_main(disk, outs, o)
               IN  Ran("generate_test_data.main", outs \o <<o>>, m.ret, m.disk)

NextScripts ==
    \/ GenerateOverview
    \/ PricesMain
    \/ RatesBondsMain
    \/ GenerateCredit
    \/ GenerateMarket
    \/ GenerateDataMain
    \/ GenerateTestDataMain

SpecScripts == InitScripts /\ [][NextScripts]_vars

\* the metric has a row in the list
HasMetric(rs, m) == \E i \in 1..Len(rs) : rs[i] = m

\* the per-tab files of the scripts pipeline
ScriptTabFiles == ScriptFiles \ {"panel.json"}

\* C14: when the generator of one source raises, generate_data.main still
\* completes: it raises nothing and panel.json holds the rows it returned,
\* those of a source whose inputs were all there among them
C14_OneFailureDoesNotAbort ==
    call = "generate_data.main" =>
        /\ returned.raised = "none"
        /\ disk["panel.json"] = JsonFile(returned.rows)
        /\ upstream[1] = "present" => HasMetric(returned.rows, "hpi_benchmark")
        /\ upstream[2] = "present" => HasMetric(returned.rows, "sales")

\* C15: a transient failure of a fetch (HTTP or connection error, timeout,
\* malformed JSON) never makes the fetcher raise: the series it was for gets
\* no rows and the other series of the same source keep theirs
C15_FetchFailureGivesEmpty ==
    /\ (call = "RatesBonds.main" /\ upstream[1] \in Failures) =>
           returned = Returned("none", <<>>)
    /\ (call = "generate_credit"
            /\ (upstream[1] \in Failures \/ upstream[2] \in Failures)) =>
           returned.raised \notin Failures
    /\ (call = "generate_market"
            /\ (upstream[1] \in Failures \/ upstream[4] \in Failures)) =>
           /\ returned.raised = "none"
           /\ HasMetric(returned.rows, "ca_real_gdp") <=> (upstream[1] = "ok")
           /\ HasMetric(returned.rows, "ca_m2") <=> (upstream[4] = "ok")
    /\ call = "generate_test_data.main" =>
           /\ returned.raised = "none"
           /\ \A i \in 1..Len(BocMetrics) :
                  HasMetric(returned.rows, BocMetrics[i]) <=> (upstream[i] = "ok")

\* C17: after a generator that produced no rows (generate_overview,
\* generate_market) its tab file exists and holds a JSON array, and after
\* generate_data.main has completed every tab file does
C17_EveryTabFileExists ==
    /\ call = "generate_overview" => disk["overview.json"].kind = "array"
    /\ (call = "generate_market" /\ returned = Returned("none", <<>>)) =>
           disk["market.json"].kind = "array"
    /\ (call = "generate_data.main" /\ returned.raised = "none") =>
           \A f \in ScriptTabFiles : disk[f].kind = "array"


-----------------------------------------------------------------------------
\* Rentals.py: the panel file written by write_json and read back by
\* _load_panel_rows_from_json

\* JSON values as json.dumps writes them and json.loads reads them
JsonString(str) == [t |-> "string", s |-> str, n |-> 0, d |-> 1]
JsonNumber(x) == [t |-> "number", s |-> "", n |-> x.n, d |-> x.d]
JsonNull == [t |-> "null", s |-> "", n |-> 0, d |-> 1]

\* json.dumps of an Optional[float] field: None is written as null, a finite
\* float by repr, which json.loads reads back as the same float
json_dumps_float(x) == IF IsNum(x) THEN JsonNumber(x) ELSE JsonNull

\* dataclasses.asdict followed by json.dumps: a JSON object as the sequence
\* of its <<key, value>> members
Rentals_asdict(r) ==
    <<  <<"date", JsonString(r.date)>>,
        <<"region", JsonString(r.region)>>,
        <<"segment", JsonString(r.segment)>>,
        <<"metric", JsonString(r.metric)>>,
        <<"value", json_dumps_float(r.value)>>,
        <<"unit", JsonString(r.unit)>>,
        <<"source", JsonString(r.source)>>,
        <<"mom_pct", json_dumps_float(r.mom_pct)>>,
        <<"yoy_pct", json_dumps_float(r.yoy_pct)>>,
        <<"ma3", json_dumps_float(r.ma3)>>  >>

\* Rentals.write_json
Rentals_write_json(rs) ==
    [kind |-> "array", rows |-> [i \in 1..Len(rs) |-> Rentals_asdict(rs[i])]]

\* obj has a member named name
HasMember(obj, name) == \E i \in 1..Len(obj) : obj[i][1] = name

\* obj[name]; json.loads keeps the last member of a name
Member(obj, name) ==
    LET i == CHOOSE j \in 1..Len(obj) :
                 /\ obj[j][1] = name
                 /\ \A m \in (j + 1)..Len(obj) : obj[m][1] # name
    IN  obj[i][2]

\* the Python value json.loads gives for a JSON value of a text field
json_loads_str(v) == IF v.t = "string" THEN v.s ELSE ""

\* the Python value json.loads gives for a JSON value of a float field
json_loads_float(v) == IF v.t = "number" THEN Num(v.n, v.d) ELSE None

\* obj.get(name, default) for a text field
GetStr(obj, name, default) ==
    IF HasMember(obj, name) THEN json_loads_str(Member(obj, name)) ELSE default

\* obj.get(name) for an Optional[float] field
GetFloat(obj, name) ==
    IF HasMember(obj, name) THEN json_loads_float(Member(obj, name)) ELSE None

\* the PanelRow built from one object of the file
Rentals_panel_row_from_obj(obj) ==
    [date |-> json_loads_str(Member(obj, "date")),
     region |-> json_loads_str(Member(obj, "region")),
     segment |-> GetStr(obj, "segment", "all"),
     metric |-> json_loads_str(Member(obj, "metric")),
     value |-> json_loads_float(Member(obj, "value")),
     unit |-> GetStr(obj, "unit", ""),
     source |-> GetStr(obj, "source", ""),
     mom_pct |-> GetFloat(obj, "mom_pct"),
     yoy_pct |-> GetFloat(obj, "yoy_pct"),
     ma3 |-> GetFloat(obj, "ma3")]

\* obj["date"], obj["region"], obj["metric"] or obj["value"] raises KeyError
RaisesKeyError(obj) ==
    \E name \in {"date", "region", "metric", "value"} : ~HasMember(obj, name)

\* float(obj["value"]) raises TypeError for null
RaisesTypeError(obj) ==
    /\ ~RaisesKeyError(obj)
    /\ Member(obj, "value").t = "null"

\* the loop of _load_panel_rows_from_json: an object with a missing required
\* member is skipped
RECURSIVE LoadPanelRows(_)
LoadPanelRows(objs) ==
    IF objs = <<>> THEN <<>>
    ELSE IF RaisesKeyError(Head(objs)) THEN LoadPanelRows(Tail(objs))
    ELSE <<Rentals_panel_row_from_obj(Head(objs))>> \o LoadPanelRows(Tail(objs))

\* a loader that reads a null mom_pct as 0.0
Rentals_load_panel_rows_from_json_null_as_zero(file) ==
    IF file.kind = "absent" THEN [raised |-> FALSE, rows |-> <<>>]
    ELSE IF \E i \in 1..Len(file.rows) : RaisesTypeError(file.rows[i])
    THEN [raised |-> TRUE, rows |-> <<>>]
    ELSE LET rs == LoadPanelRows(file.rows)
         IN  [raised |-> FALSE,
              rows |-> [i \in 1..Len(rs) |->
                           IF rs[i].mom_pct = None
                           THEN [rs[i] EXCEPT !.mom_pct = Num(0, 1)]
                           ELSE rs[i]]]

\* Rentals._load_panel_rows_from_json: [] when the file is missing
Rentals_load_panel_rows_from_json(file) ==
    IF file.kind = "absent" THEN [raised |-> FALSE, rows |-> <<>>]
    ELSE IF \E i \in 1..Len(file.rows) : RaisesTypeError(file.rows[i])
    THEN [raised |-> TRUE, rows |-> <<>>]
    ELSE [raised |-> FALSE, rows |-> LoadPanelRows(file.rows)]

\* rows in one list
MaxRtRows == 2

\* canonical rows: a finite value, optional change statistics
RtRows ==
    [date : {"2024-01-01", "2024-02-01"},
     region : {"canada"},
     segment : {"all"},
     metric : {"rent_index"},
     value : {Num(3, 1), Num(0 - 5, 2)},
     unit : {"index"},
     source : {"statcan"},
     mom_pct : {None, Num(1, 2)},
     yoy_pct : {None, Num(7, 1)},
     ma3 : {None, Num(3, 1)}]

RowLists == UNION {[1..m -> RtRows] : m \in 0..MaxRtRows}

InitJson ==
    /\ IdleChanges
    /\ routine = "none"
    /\ rows = <<>>
    /\ IdleGap
    /\ IdleFetch
    /\ IdleDates
    /\ IdleEtl
    /\ IdleScripts
    /\ IdleCredit
    /\ IdleCrea
    /\ IdleRent
    /\ IdleUpd
    /\ rt_rows \in RowLists
    /\ rt_file = NoFile
    /\ rt_loaded = [raised |-> FALSE, rows |-> <<>>]
    /\ rt_pc = "start"

notJson == <<values, routine, changes, rows, gapVars, fetchVars, dateVars,
             etlVars, scriptVars, creditVars, creaVars, rentVars, updVars>>

WriteJson ==
    /\ rt_pc = "start"
    /\ rt_file' = Rentals_write_json(rt_rows)
    /\ rt_pc' = "written"
    /\ UNCHANGED <<rt_rows, rt_loaded>>
    /\ UNCHANGED notJson

LoadPanelRowsFromJson ==
    /\ rt_pc \in {"start", "written"}
    /\ rt_loaded' = Rentals_load_panel_rows_from_json(rt_file)
    /\ rt_pc' = IF rt_pc = "start" THEN "missing" ELSE "loaded"
    /\ UNCHANGED <<rt_rows, rt_file>>
    /\ UNCHANGED notJson

NextJson == WriteJson \/ LoadPanelRowsFromJson

SpecJson == InitJson /\ [][NextJson]_vars

\* C23: a list of canonical rows written by write_json and read back by
\* _load_panel_rows_from_json comes back equal to the original, row for row
\* and field for field, null change statistics and the row order included
C23_RoundTrip ==
    rt_pc = "loaded" =>
        /\ ~rt_loaded.raised
        /\ rt_loaded.rows = rt_rows

\* two different rows, the first with all three statistics null, were written
\* and read back
C23_Witness ==
    /\ rt_pc = "loaded"
    /\ Len(rt_rows) = 2
    /\ rt_rows[1] # rt_rows[2]
    /\ rt_rows[1].mom_pct = None
    /\ rt_rows[1].yoy_pct = None
    /\ rt_rows[1].ma3 = None
    /\ rt_rows[2].mom_pct # None


-----------------------------------------------------------------------------
\* Credit.py: build_credit_panel, one series at a time

\* the series build_credit_panel converts, in the order of its calls: the
\* frequency of the source data and the freq argument passed to
\* series_to_panel_rows
CreditCalls ==
    <<  [metric |-> "household_non_mortgage_loans", native |-> "M", freq |-> "M"],
        [metric |-> "household_mortgage_loans", native |-> "M", freq |-> "M"],
        [metric |-> "household_mortgage_share_of_credit", native |-> "M", freq |-> "M"],
        [metric |-> "business_total_debt", native |-> "M", freq |-> "M"],
        [metric |-> "business_equity", native |-> "M", freq |-> "M"],
        [metric |-> "business_debt_to_equity", native |-> "M", freq |-> "M"],
        [metric |-> "household_default_rate", native |-> "M", freq |-> "Q"],
        [metric |-> "business_default_rate", native |-> "M", freq |-> "M"],
        [metric |-> "household_mortgage_delinquency_rate", native |-> "Q", freq |-> "Q"],
        [metric |-> "business_nfc_dsr", native |-> "Q", freq |-> "Q"]  >>

CreditCall(metric) ==
    CreditCalls[CHOOSE i \in 1..Len(CreditCalls) : CreditCalls[i].metric = metric]

\* years=10 in every trim_to_last_n_years call of build_credit_panel
TrimYears == 10

\* Credit.trim_to_last_n_years: the index is month starts, so
\* last_date - DateOffset(years) is 12 * years months earlier
Credit_trim_to_last_n_years(series, years) ==
    IF DOMAIN series = {} THEN series
    ELSE LET last_date == CHOOSE x \in DOMAIN series :
                              \A y \in DOMAIN series : y <= x
             cutoff    == last_date - 12 * years
         IN  [x \in {y \in DOMAIN series : y >= cutoff} |-> series[x]]

\* the rows build_credit_panel adds for one series
Credit_build_credit_panel_rows(metric, series) ==
    Credit_series_to_panel_rows(
        Credit_trim_to_last_n_years(series, TrimYears),
        metric, CreditCall(metric).freq)

\* observations of a source series inside the last ten years
MaxCreditLen == 14

\* observations of it before the cutoff
MaxOlder == 2

\* month ordinal of the latest observation
LastMonth == 200

Slopes == {0, 1, 3}

\* months between the observations of a series
Step(native) == IF native = "M" THEN 1 ELSE 3

\* a source series: n observations ending at LastMonth, older ones before
\* the cutoff, and possibly one dated exactly at the cutoff
CreditSeries(native, n, older, at_cutoff, slope) ==
    LET recent == {LastMonth - Step(native) * j : j \in 0..(n - 1)}
        before == {LastMonth - 12 * TrimYears - Step(native) * j : j \in 1..older}
        edge   == IF at_cutoff THEN {LastMonth - 12 * TrimYears} ELSE {}
    IN  [x \in recent \cup before \cup edge |-> 10 + slope * x]

InitCredit ==
    /\ IdleChanges
    /\ routine = "none"
    /\ rows = <<>>
    /\ IdleGap
    /\ IdleFetch
    /\ IdleDates
    /\ IdleRest

notCredit == <<values, routine, changes, rows, gapVars, fetchVars, dateVars,
               etlVars, scriptVars, jsonVars, creaVars, rentVars, updVars>>

\* a loader of build_credit_panel returns the series of one metric
LoadCreditSeries(i, n, older, at_cutoff, slope) ==
    /\ credit_pc = "start"
    /\ credit_metric' = CreditCalls[i].metric
    /\ credit_source' = CreditSeries(CreditCalls[i].native, n, older, at_cutoff, slope)
    /\ credit_pc' = "loaded"
    /\ UNCHANGED credit_rows
    /\ UNCHANGED notCredit

\* trim_to_last_n_years and series_to_panel_rows on it
BuildCreditRows ==
    /\ credit_pc = "loaded"
    /\ credit_rows' = Credit_build_credit_panel_rows(credit_metric, credit_source)
    /\ credit_pc' = "built"
    /\ UNCHANGED <<credit_metric, credit_source>>
    /\ UNCHANGED notCredit

NextCredit ==
    \/ \E i \in 1..Len(CreditCalls), n \in 1..MaxCreditLen, older \in 0..MaxOlder,
          at_cutoff \in BOOLEAN, slope \in Slopes :
          LoadCreditSeries(i, n, older, at_cutoff, slope)
    \/ BuildCreditRows

SpecCredit == InitCredit /\ [][NextCredit]_vars

\* lag of the year-over-year change for a series of the given frequency
NativeLag(native) == IF native = "M" THEN YearLag ELSE QuarterLag

\* C25: in the credit panel yoy_pct is the change against the observation 12
\* periods back for every series whose source data is monthly and 4 periods
\* back for every quarterly one, household_default_rate and
\* business_default_rate of the monthly insolvency sheet included
C25_YoyLagMatchesFrequency ==
    credit_pc = "built" =>
        LET vals == Values(Credit_trim_to_last_n_years(credit_source, TrimYears))
            lag  == NativeLag(CreditCall(credit_metric).native)
        IN  \A p \in 1..Len(credit_rows) :
               credit_rows[p].yoy_pct = PandasPct(vals, p, lag)

\* C28: the rows of a trimmed series are those dated on or after the latest
\* date minus ten years; the first of them has mom_pct undefined and the
\* first 12 (monthly source) or 4 (quarterly source) have yoy_pct undefined
C28_StatsFromRetainedOnly ==
    credit_pc = "built" =>
        LET last_date == CHOOSE x \in DOMAIN credit_source :
                             \A y \in DOMAIN credit_source : y <= x
            kept == {x \in DOMAIN credit_source : x >= last_date - 12 * TrimYears}
            lag  == NativeLag(CreditCall(credit_metric).native)
        IN  /\ {credit_rows[p].date : p \in 1..Len(credit_rows)} = kept
            /\ Len(credit_rows) = Cardinality(kept)
            /\ credit_rows[1].mom_pct = None
            /\ \A p \in 1..Len(credit_rows) :
                   p <= lag => credit_rows[p].yoy_pct = None


-----------------------------------------------------------------------------
\* SalesListings.py: _build_monthly_from_crea_quarterly

\* a Date cell: a string, or a datetime / Timestamp object
StrCell(str) == [kind |-> "str", s |-> str, d |-> <<0, 0, 0>>]
DatetimeCell(y, m, d) == [kind |-> "datetime", s |-> <<>>, d |-> <<y, m, d>>]

NoItems == [raised |-> FALSE, items |-> <<>>]

\* the loop body with the quarter total written to each month undivided
SalesListings_row_items_total(row) ==
    IF row.val = NaN THEN NoItems
    ELSE IF row.cell.kind = "datetime"
    THEN [raised |-> FALSE,
          items |-> << <<IsoFormat(row.cell.d[1], row.cell.d[2], 1), row.val>> >>]
    ELSE LET str == Strip(row.cell.s)
             yq == SalesListings_parse_quarter_label(str)
             d == pandas_to_datetime(str)
         IN  IF str = <<>> \/ Lower(str) = <<"n", "a", "n">> THEN NoItems
             ELSE IF yq.raised
             THEN IF d = NoDate THEN NoItems
                  ELSE [raised |-> FALSE,
                        items |-> << <<IsoFormat(d[1], d[2], 1), row.val>> >>]
             ELSE LET qm == SalesListings_quarter_months(yq.year, yq.quarter)
                  IN  IF qm.raised THEN [raised |-> TRUE, items |-> <<>>]
                      ELSE [raised |-> FALSE,
                            items |-> [i \in 1..Len(qm.keys) |->
                                          <<qm.keys[i], row.val>>]]

\* the body of the loop of _build_monthly_from_crea_quarterly: the
\* (key, value) pairs one row writes to the monthly dict
SalesListings_row_items(row) ==
    IF row.val = NaN THEN NoItems
    ELSE IF row.cell.kind = "datetime"
    THEN [raised |-> FALSE,
          items |-> << <<IsoFormat(row.cell.d[1], row.cell.d[2], 1), row.val>> >>]
    ELSE LET str == Strip(row.cell.s)
             yq == SalesListings_parse_quarter_label(str)
             d == pandas_to_datetime(str)
         IN  IF str = <<>> \/ Lower(str) = <<"n", "a", "n">> THEN NoItems
             ELSE IF yq.raised
             THEN IF d = NoDate THEN NoItems
                  ELSE [raised |-> FALSE,
                        items |-> << <<IsoFormat(d[1], d[2], 1), row.val>> >>]
             ELSE LET qm == SalesListings_quarter_months(yq.year, yq.quarter)
                      per_month == Num(row.val.n, 3 * row.val.d)
                  IN  IF qm.raised THEN [raised |-> TRUE, items |-> <<>>]
                      ELSE [raised |-> FALSE,
                            items |-> [i \in 1..Len(qm.keys) |->
                                          <<qm.keys[i], per_month>>]]

\* monthly[key] = value for each pair in turn
RECURSIVE PutItems(_, _)
PutItems(monthly, items) ==
    IF items = <<>> THEN monthly
    ELSE LET k == Head(items)[1]
             v == Head(items)[2]
         IN  PutItems([x \in DOMAIN monthly \cup {k} |->
                          IF x = k THEN v ELSE monthly[x]],
                      Tail(items))

\* SalesListings._build_monthly_from_crea_quarterly from the given dict on
RECURSIVE SalesListings_build_monthly_from_crea_quarterly(_, _)
SalesListings_build_monthly_from_crea_quarterly(df, monthly) ==
    IF df = <<>> THEN [raised |-> FALSE, monthly |-> monthly]
    ELSE LET it == SalesListings_row_items(Head(df))
         IN  IF it.raised THEN [raised |-> TRUE, monthly |-> <<>>]
             ELSE SalesListings_build_monthly_from_crea_quarterly(
                      Tail(df), PutItems(monthly, it.items))

\* what a sheet row stands for
Quarter(y, q) == [kind |-> "quarter", y |-> y, p |-> q]
Month(y, m) == [kind |-> "month", y |-> y, p |-> m]
Nothing == [kind |-> "none", y |-> 0, p |-> 0]

\* "YYYY<sep>Q<q>"
QuarterLabel(y, sep, q) == Pad(y, 4) \o sep \o <<"Q">> \o Pad(q, 1)

CreaRow(cell, val, means) == [cell |-> cell, val |-> val, means |-> means]

\* the rows of the model: quarter labels in the three spellings, a monthly
\* Timestamp, monthly date strings, an empty total, text that is no date, a
\* quarter 5 and a year 0
CreaSheetRows ==
    {CreaRow(StrCell(QuarterLabel(2024, <<"-">>, 1)), Num(300, 1), Quarter(2024, 1)),
     CreaRow(StrCell(QuarterLabel(2024, <<>>, 1)), Num(100, 1), Quarter(2024, 1)),
     CreaRow(StrCell(<<" ">> \o QuarterLabel(2024, <<" ">>, 2) \o <<" ">>),
             Num(300, 1), Quarter(2024, 2)),
     CreaRow(StrCell(QuarterLabel(2023, <<"-">>, 4)), Num(7, 1), Quarter(2023, 4)),
     CreaRow(DatetimeCell(2024, 2, 15), Num(100, 1), Month(2024, 2)),
     CreaRow(StrCell(IsoFormat(2024, 3, 1)), Num(7, 1), Month(2024, 3)),
     CreaRow(StrCell(Pad(2024, 4) \o <<"-">> \o Pad(4, 2)), Num(100, 1), Month(2024, 4)),
     CreaRow(StrCell(QuarterLabel(2024, <<"-">>, 1)), NaN, Nothing),
     CreaRow(StrCell(<<"a", "b", "c">>), Num(100, 1), Nothing),
     CreaRow(StrCell(QuarterLabel(2024, <<"-">>, 5)), Num(100, 1), Nothing),
     CreaRow(StrCell(QuarterLabel(0, <<"-">>, 1)), Num(300, 1), Quarter(0, 1))}

\* rows in one sheet
MaxCreaRows == 3

InitCrea ==
    /\ IdleChanges
    /\ routine = "none"
    /\ rows = <<>>
    /\ IdleGap
    /\ IdleFetch
    /\ IdleDates
    /\ IdleRest

notCrea == <<values, routine, changes, rows, gapVars, fetchVars, dateVars,
             etlVars, scriptVars, jsonVars, creditVars, rentVars, updVars>>

\* the sheet is read with one more row
ReadCreaRow(r) ==
    /\ crea_pc \in {"start", "read"}
    /\ Len(crea_rows) < MaxCreaRows
    /\ crea_rows' = Append(crea_rows, r)
    /\ crea_pc' = "read"
    /\ UNCHANGED crea_result
    /\ UNCHANGED notCrea

BuildMonthlyFromCreaQuarterly ==
    /\ crea_pc \in {"start", "read"}
    /\ crea_result' = SalesListings_build_monthly_from_crea_quarterly(crea_rows, <<>>)
    /\ crea_pc' = "done"
    /\ UNCHANGED crea_rows
    /\ UNCHANGED notCrea

NextCrea ==
    \/ \E r \in CreaSheetRows : ReadCreaRow(r)
    \/ BuildMonthlyFromCreaQuarterly

SpecCrea == InitCrea /\ [][NextCrea]_vars

\* the (key, value) pairs the row at position i stands for: a third of the
\* total for each month 3(q-1)+1 .. 3(q-1)+3 of a quarter, the total for the
\* month of a monthly date, nothing for a row without a total or a date
Covers(i) ==
    LET r == crea_rows[i]
    IN  IF r.means.kind = "quarter"
        THEN {<<IsoFormat(r.means.y, 3 * (r.means.p - 1) + j, 1),
                Num(r.val.n, 3 * r.val.d)>> : j \in 1..3}
        ELSE IF r.means.kind = "month"
        THEN {<<IsoFormat(r.means.y, r.means.p, 1), r.val>>}
        ELSE {}

CoveredKeys(i) == {it[1] : it \in Covers(i)}

\* C26: when _build_monthly_from_crea_quarterly returns, its dict has
\* exactly the month keys of the rows: for a quarter row of year y, quarter
\* q and total T the months 3(q-1)+1 .. 3(q-1)+3 of y at T/3 each, which sum
\* to T, for a monthly date row its month at the value unchanged, and for a
\* month covered by several rows the value of the row latest in the sheet
C26_QuarterSpreadEvenly ==
    (crea_pc = "done" /\ ~crea_result.raised) =>
        LET monthly == crea_result.monthly
            n == Len(crea_rows)
        IN  /\ DOMAIN monthly = UNION {CoveredKeys(i) : i \in 1..n}
            /\ \A k \in DOMAIN monthly :
                  LET last == CHOOSE i \in 1..n :
                                  /\ k \in CoveredKeys(i)
                                  /\ \A j \in (i + 1)..n : k \notin CoveredKeys(j)
                  IN  <<k, monthly[k]>> \in Covers(last)

\* a quarter row, then a monthly row inside that quarter, then the same
\* quarter again with another total: the later rows have replaced the values
C26_Witness ==
    /\ crea_pc = "done"
    /\ ~crea_result.raised
    /\ Len(crea_rows) = 3
    /\ crea_rows[1].means = Quarter(2024, 1)
    /\ crea_rows[2].means = Month(2024, 2)
    /\ crea_rows[3].means = Quarter(2024, 1)
    /\ crea_rows[3].val # crea_rows[1].val
    /\ crea_result.monthly[IsoFormat(2024, 2, 1)] = Num(crea_rows[3].val.n, 3)


-----------------------------------------------------------------------------
\* Rentals.py: build_rent_inflation_lookup

\* rent_metric_candidates
rent_metric_candidates == {"rent_index", "cpi_rent", "rent_cpi"}

\* the metric names of the model
InflationMetrics == {"rent_index", "cpi_rent", "avg_rent", "cpi_headline"}

\* "rent" in str(metric).lower(), for the metric names of the model
ContainsRent(m) == m \in {"rent_index", "cpi_rent", "rent_cpi", "avg_rent"}

NoMetric == "none"

\* the metric of the first row whose metric is in the set S
FirstMetric(rs, S) ==
    LET ps == {p \in 1..Len(rs) : rs[p].metric \in S}
    IN  IF ps = {} THEN NoMetric
        ELSE rs[CHOOSE p \in ps : \A q \in ps : p <= q].metric

\* the metric detection of build_rent_inflation_lookup: the first row whose
\* metric is one of the candidates, else the first whose metric contains
\* "rent"
Rentals_rent_metric_name(rs) ==
    LET m == FirstMetric(rs, rent_metric_candidates)
    IN  IF m # NoMetric THEN m
        ELSE FirstMetric(rs, {x \in InflationMetrics : ContainsRent(x)})

\* the second loop of build_rent_inflation_lookup from position p on: tmp
\* maps (region, year) to (month, yoy)
RECURSIVE Rentals_latest_by_year(_, _, _, _)
Rentals_latest_by_year(rs, p, metric_name, tmp) ==
    IF p > Len(rs) THEN tmp
    ELSE LET row == rs[p]
             ry  == <<row.region, ToInt(SubSeq(row.date, 1, 4))>>
             month == ToInt(SubSeq(row.date, 6, 7))
         IN  IF row.metric # metric_name \/ row.yoy_pct = None
                  \/ ~StrptimeYmdOk(row.date)
             THEN Rentals_latest_by_year(rs, p + 1, metric_name, tmp)
             ELSE IF ry \notin DOMAIN tmp \/ month >= tmp[ry][1]
             THEN Rentals_latest_by_year(rs, p + 1, metric_name,
                      [x \in DOMAIN tmp \cup {ry} |->
                          IF x = ry THEN <<month, row.yoy_pct>> ELSE tmp[x]])
             ELSE Rentals_latest_by_year(rs, p + 1, metric_name, tmp)

\* Rentals.build_rent_inflation_lookup
Rentals_build_rent_inflation_lookup(rs) ==
    LET metric_name == Rentals_rent_metric_name(rs)
    IN  IF rs = <<>> \/ metric_name = NoMetric THEN <<>>
        ELSE LET tmp == Rentals_latest_by_year(rs, 1, metric_name, <<>>)
             IN  [x \in DOMAIN tmp |-> tmp[x][2]]

\* the inflation rows of the model
InflationRows ==
    [date : {IsoFormat(2024, 3, 1), IsoFormat(2024, 11, 1)},
     region : {"canada"},
     metric : InflationMetrics,
     yoy_pct : {None, Num(1, 1), Num(5, 2)}]

\* rows in one inflation panel
MaxInflRows == 3

InitRent ==
    /\ IdleChanges
    /\ routine = "none"
    /\ rows = <<>>
    /\ IdleGap
    /\ IdleFetch
    /\ IdleDates
    /\ IdleRest

notRent == <<values, routine, changes, rows, gapVars, fetchVars, dateVars,
             etlVars, scriptVars, jsonVars, creditVars, creaVars, updVars>>

\* the inflation panel has one more row
ReadInflationRow(r) ==
    /\ rent_pc \in {"start", "read"}
    /\ Len(infl_rows) < MaxInflRows
    /\ infl_rows' = Append(infl_rows, r)
    /\ rent_pc' = "read"
    /\ UNCHANGED rent_lookup
    /\ UNCHANGED notRent

BuildRentInflationLookup ==
    /\ rent_pc \in {"start", "read"}
    /\ rent_lookup' = Rentals_build_rent_inflation_lookup(infl_rows)
    /\ rent_pc' = "done"
    /\ UNCHANGED infl_rows
    /\ UNCHANGED notRent

NextRent ==
    \/ \E r \in InflationRows : ReadInflationRow(r)
    \/ BuildRentInflationLookup

SpecRent == InitRent /\ [][NextRent]_vars

\* positions of the rows of metric m with a yoy_pct
RowsOf(m) ==
    {p \in 1..Len(infl_rows) :
        infl_rows[p].metric = m /\ infl_rows[p].yoy_pct # None}

RowYear(p) == ToInt(SubSeq(infl_rows[p].date, 1, 4))
RowMonth(p) == ToInt(SubSeq(infl_rows[p].date, 6, 7))

\* C27: build_rent_inflation_lookup uses the metric 'rent_index' whenever a
\* row has it, whatever the order of the rows, and otherwise a metric
\* containing 'rent'; for each (region, year) it stores the yoy_pct of a row
\* with the highest month among the rows of that metric with a yoy_pct
C27_RentIndexPreferred ==
    rent_pc = "done" =>
        LET has_index == \E p \in 1..Len(infl_rows) : infl_rows[p].metric = "rent_index"
            others == {infl_rows[p].metric : p \in 1..Len(infl_rows)}
                          \cap {m \in InflationMetrics : ContainsRent(m)}
        IN  \E chosen \in (IF has_index THEN {"rent_index"}
                           ELSE IF others # {} THEN others ELSE {NoMetric}) :
               /\ DOMAIN rent_lookup =
                      {<<infl_rows[p].region, RowYear(p)>> : p \in RowsOf(chosen)}
               /\ \A x \in DOMAIN rent_lookup :
                     \E p \in RowsOf(chosen) :
                        /\ <<infl_rows[p].region, RowYear(p)>> = x
                        /\ rent_lookup[x] = infl_rows[p].yoy_pct
                        /\ \A q \in RowsOf(chosen) :
                              <<infl_rows[q].region, RowYear(q)>> = x =>
                                  RowMonth(q) <= RowMonth(p)


-----------------------------------------------------------------------------
\* update_market_prices_from_alphavantage.py, _from_finnhub.py and
\* _from_twelvedata.py, and the candle reader of Market.py

\* days from 1970-01-01 to the date (y, m, d) of the proleptic Gregorian
\* calendar
DaysFromCivil(y, m, d) ==
    LET yy  == IF m <= 2 THEN y - 1 ELSE y
        era == yy \div 400
        yoe == yy - era * 400
        mp  == IF m > 2 THEN m - 3 ELSE m + 9
        doy == (153 * mp + 2) \div 5 + d - 1
        doe == yoe * 365 + yoe \div 4 - yoe \div 100 + doy
    IN  era * 146097 + doe - 719468

\* the date that many days after 1970-01-01
CivilFromDays(days) ==
    LET z   == days + 719468
        era == z \div 146097
        doe == z - era * 146097
        yoe == (doe - doe \div 1460 + doe \div 36524 - doe \div 146096) \div 365
        doy == doe - (365 * yoe + yoe \div 4 - yoe \div 100)
        mp  == (5 * doy + 2) \div 153
        d   == doy - (153 * mp + 2) \div 5 + 1
        m   == IF mp < 10 THEN mp + 3 ELSE mp - 9
        y   == yoe + era * 400
    IN  <<IF m <= 2 THEN y + 1 ELSE y, m, d>>

SecondsPerDay == 86400

\* int(dt.timestamp()) of the naive datetime of midnight of date d on a
\* machine whose local time is tz minutes ahead of UTC
LocalTimestamp(d, tz) == DaysFromCivil(d[1], d[2], d[3]) * SecondsPerDay - tz * 60

\* datetime.utcfromtimestamp(ts).strftime("%Y-%m-01")
UtcMonthKey(ts) ==
    LET d == CivilFromDays(ts \div SecondsPerDay)
    IN  IsoFormat(d[1], d[2], 1)

\* date a sorts before date b, as their "YYYY-MM-DD" strings do
DateBefore(a, b) ==
    \/ a[1] < b[1]
    \/ a[1] = b[1] /\ a[2] < b[2]
    \/ a[1] = b[1] /\ a[2] = b[2] /\ a[3] < b[3]

\* sorted(ts.items(), key=lambda kv: kv[0]); the dict has one row per date
RECURSIVE SortedByDate(_)
SortedByDate(S) ==
    IF S = {} THEN <<>>
    ELSE LET first == CHOOSE x \in S : \A y \in S \ {x} : DateBefore(x.date, y.date)
         IN  <<first>> \o SortedByDate(S \ {first})

\* the loop of monthly_to_candles_payload and of values_to_candles_payload:
\* a row without a close, or with a date that strptime rejects, is skipped
RECURSIVE CandlePairs(_, _)
CandlePairs(items, tz) ==
    IF items = <<>> THEN <<>>
    ELSE LET row == Head(items)
         IN  IF row.c = None \/ ~ValidDate(row.date[1], row.date[2], row.date[3])
             THEN CandlePairs(Tail(items), tz)
             ELSE << <<Num(LocalTimestamp(row.date, tz), 1), row.c>> >>
                      \o CandlePairs(Tail(items), tz)

CandlesPayload(pairs) ==
    IF pairs = <<>> THEN EmptyPayload
    ELSE [s |-> "ok",
          t |-> [i \in 1..Len(pairs) |-> pairs[i][1]],
          c |-> [i \in 1..Len(pairs) |-> pairs[i][2]]]

\* update_market_prices_from_alphavantage.monthly_to_candles_payload
alphavantage_monthly_to_candles_payload(ts, tz) ==
    IF ts = <<>> THEN EmptyPayload
    ELSE CandlesPayload(CandlePairs(ts, tz))

\* update_market_prices_from_twelvedata.values_to_candles_payload
twelvedata_values_to_candles_payload(vals, tz) ==
    IF vals = <<>> THEN EmptyPayload
    ELSE CandlesPayload(CandlePairs(vals, tz))

\* update_market_prices_from_finnhub.quote_to_candles_payload; the quote is
\* the one row of the input, an empty input is the {} of a failed fetch
finnhub_quote_to_candles_payload(quote) ==
    IF quote = <<>> THEN EmptyPayload
    ELSE IF quote[1].c = None THEN EmptyPayload
    ELSE [s |-> "ok",
          t |-> IF quote[1].t # None THEN <<quote[1].t>> ELSE <<>>,
          c |-> <<quote[1].c>>]

\* main of each updater: the file is written when the payload is not empty
WritePayload(file, payload) == IF payload # EmptyPayload THEN payload ELSE file

\* Market._read_alphavantage_candles
Market_read_alphavantage_candles(file) ==
    IF file.s = "absent" THEN <<>>
    ELSE IF file.s \notin {"ok", "no_data"} THEN <<>>
    ELSE IF Len(file.t) # Len(file.c) THEN <<>>
    ELSE LET pairs == [i \in 1..Len(file.t) |->
                          <<UtcMonthKey(file.t[i].n), file.c[i]>>]
         IN  PutItems(<<>>, pairs)

\* the source dates of the model: ends of months, a first of a month, a day
\* that does not exist
SourceDates == {<<2024, 1, 31>>, <<2024, 2, 29>>, <<2024, 3, 1>>, <<2024, 2, 30>>}

Closes == {None, Num(10, 1), Num(41, 2)}

\* UTC offsets in minutes: Toronto, UTC, Paris, Delhi, Kiritimati
Offsets == {0 - 300, 0, 60, 330, 840}

\* rows of one response
MaxSeriesRows == 2

SourceRow(d, c) == [date |-> d, c |-> c, t |-> None]

\* the responses: one row per date of a set of at most MaxSeriesRows dates
SeriesInputs ==
    UNION {{ {SourceRow(d, f[d]) : d \in D} : f \in [D -> Closes] } :
              D \in {X \in SUBSET SourceDates : Cardinality(X) <= MaxSeriesRows}}

\* a Finnhub quote: c and t present or null
Quotes ==
    {<<>>} \cup
    {<<[date |-> <<1970, 1, 1>>, c |-> c, t |-> t]>> :
        c \in Closes, t \in {None, Num(1711929600, 1)}}

\* a raw file of an earlier run
OldRawFile == [s |-> "ok", t |-> <<Num(1704085200, 1)>>, c |-> <<Num(9, 1)>>]

InitUpd ==
    /\ IdleChanges
    /\ routine = "none"
    /\ rows = <<>>
    /\ IdleGap
    /\ IdleFetch
    /\ IdleDates
    /\ IdleEtl /\ IdleScripts /\ IdleJson /\ IdleCredit /\ IdleCrea /\ IdleRent
    /\ upd_kind = "none"
    /\ upd_input = <<>>
    /\ upd_tz = 0
    /\ upd_payload = EmptyPayload
    /\ raw_old \in {NoRawFile, OldRawFile}
    /\ raw_file = raw_old
    /\ read_series = <<>>
    /\ upd_pc = "start"

notUpd == <<values, routine, changes, rows, gapVars, fetchVars, dateVars,
            etlVars, scriptVars, jsonVars, creditVars, creaVars, rentVars>>

Updated(kind, input, tz, payload) ==
    /\ upd_kind' = kind
    /\ upd_input' = input
    /\ upd_tz' = tz
    /\ upd_payload' = payload
    /\ raw_file' = WritePayload(raw_file, payload)
    /\ upd_pc' = "written"
    /\ UNCHANGED <<raw_old, read_series>>
    /\ UNCHANGED notUpd

\* update_market_prices_from_alphavantage.main for one symbol
UpdateFromAlphaVantage(S, tz) ==
    /\ upd_pc = "start"
    /\ LET ts == SortedByDate(S)
       IN  Updated("alphavantage", ts, tz, alphavantage_monthly_to_candles_payload(ts, tz))

\* update_market_prices_from_twelvedata.main for one symbol
UpdateFromTwelveData(S, tz) ==
    /\ upd_pc = "start"
    /\ LET vals == SortedByDate(S)
       IN  Updated("twelvedata", vals, tz, twelvedata_values_to_candles_payload(vals, tz))

\* update_market_prices_from_finnhub.main for one symbol
UpdateFromFinnhub(quote) ==
    /\ upd_pc = "start"
    /\ Updated("finnhub", quote, 0, finnhub_quote_to_candles_payload(quote))

\* Market.generate_market reads the raw file
ReadAlphaVantageCandles ==
    /\ upd_pc = "written"
    /\ read_series' = Market_read_alphavantage_candles(raw_file)
    /\ upd_pc' = "read"
    /\ UNCHANGED <<upd_kind, upd_input, upd_tz, upd_payload, raw_old, raw_file>>
    /\ UNCHANGED notUpd

NextUpd ==
    \/ \E S \in SeriesInputs, tz \in Offsets : UpdateFromAlphaVantage(S, tz)
    \/ \E S \in SeriesInputs, tz \in Offsets : UpdateFromTwelveData(S, tz)
    \/ \E quote \in Quotes : UpdateFromFinnhub(quote)
    \/ ReadAlphaVantageCandles

SpecUpd == InitUpd /\ [][NextUpd]_vars

\* the rows of the response with a close and a real date
Usable == {i \in 1..Len(upd_input) :
              /\ upd_input[i].c # None
              /\ ValidDate(upd_input[i].date[1], upd_input[i].date[2],
                           upd_input[i].date[3])}

\* first-of-month(D) of row i
SourceMonthKey(i) == IsoFormat(upd_input[i].date[1], upd_input[i].date[2], 1)

\* C29: a monthly close stored by the Alpha Vantage updater for source date
\* D is read back by _read_alphavantage_candles under first-of-month(D),
\* whatever the UTC offset of the machine that ran the updater, and distinct
\* source months give distinct keys
C29_MonthKeySurvivesTimeZone ==
    (upd_pc = "read" /\ upd_kind = "alphavantage" /\ Usable # {}) =>
        /\ DOMAIN read_series = {SourceMonthKey(i) : i \in Usable}
        /\ \A i \in Usable :
              (\A j \in Usable : j > i => SourceMonthKey(j) # SourceMonthKey(i)) =>
                  read_series[SourceMonthKey(i)] = upd_input[i].c

\* C30: a non-empty payload of an updater has status 'ok' and 't' and 'c'
\* arrays of equal length; an updater that built no payload leaves the raw
\* file as it was
C30_PayloadWellFormed ==
    upd_pc \in {"written", "read"} =>
        /\ upd_payload # EmptyPayload =>
               /\ upd_payload.s = "ok"
               /\ Len(upd_payload.t) = Len(upd_payload.c)
               /\ raw_file = upd_payload
        /\ upd_payload = EmptyPayload => raw_file = raw_old

=============================================================================
